---------------------------- MODULE Spec2Model ----------------------------
(***************************************************************************)
(* Verification model of the Windsurf chat bridge:                         *)
(*   src/src/plugin/grpc-client.ts  (streamChat, streamChatGenerator,      *)
(*                                   extractTextFromChunk)                 *)
(*   src/src/plugin.ts              (createStreamingResponse,              *)
(*                                   createNonStreamingResponse)           *)
(*   src/src/plugin.ts              (handleToolPlanning, parseToolCallPlan, *)
(*                                   normalizeToolArguments)               *)
(*   src/src/plugin/grpc-client.ts  (buildChatRequest and the encoder)     *)
(*   src/unnamed/part_001           (the model registry, models.ts)        *)
(*   src/src/plugin.ts              (ensureWindsurfProxyServer, its        *)
(*                                   handler, the chat.params hook)        *)
(*   src/src/plugin/grpc-client.ts  (getCredentials and what it reads)     *)
(*                                                                         *)
(* Text is a sequence of one-character strings.  "\t" stands for any byte  *)
(* outside \x20-\x7E and \n.                                               *)
(***************************************************************************)
EXTENDS Integers, Sequences, FiniteSets, TLC

(***************************************************************************)
(* Bounds of the model.                                                    *)
(***************************************************************************)
\* the remote sends at most this many data chunks in one call
MaxChunks == 3

(***************************************************************************)
(* Character classes used by the regular expressions of                    *)
(* extractTextFromChunk.                                                   *)
(***************************************************************************)
\* \s restricted to what survives the replace of line 185
WS == {" ", "\n"}

\* \d
Digits == {"0", "1", "2", "3", "4", "5", "6", "7", "8", "9"}

\* [a-f0-9-] under the i flag
HexDash == Digits \cup {"a", "b", "c", "d", "e", "f",
                        "A", "B", "C", "D", "E", "F", "-"}

\* bytes outside [\x20-\x7E\n]
NonPrintable == {"\t"}

MinOf(S) == CHOOSE x \in S : \A y \in S : x <= y

MaxOf(S) == CHOOSE x \in S : \A y \in S : y <= x

\* String.prototype.trim
Trim(s) ==
    LET keep == {i \in 1..Len(s) : s[i] \notin WS}
    IN  IF keep = {} THEN <<>> ELSE SubSeq(s, MinOf(keep), MaxOf(keep))

\* chunk.toString('utf8').replace(/[^\x20-\x7E\n]/g, ' ').trim()
Readable(chunk) ==
    Trim([i \in 1..Len(chunk) |->
            IF chunk[i] \in NonPrintable THEN " " ELSE chunk[i]])

\* first index >= from whose character is in (or, with inSet FALSE, not in) cls;
\* Len(s) + 1 when there is none
Scan(s, from, cls, inSet) ==
    LET hit == {i \in from..Len(s) : (s[i] \in cls) = inSet}
    IN  IF hit = {} THEN Len(s) + 1 ELSE MinOf(hit)

\* the capture group of /\*\s*([^0]+)/ anchored at the '*' of index i:
\* \s* is greedy and gives back one character when [^0]+ cannot start
StarGroupAt(s, i) ==
    LET j == Scan(s, i + 1, WS, FALSE)
    IN  IF j <= Len(s) /\ s[j] # "0"
        THEN [ok |-> TRUE, group |-> SubSeq(s, j, Scan(s, j, {"0"}, TRUE) - 1)]
        ELSE IF j > i + 1
             THEN [ok |-> TRUE, group |-> <<s[j - 1]>>]
             ELSE [ok |-> FALSE, group |-> <<>>]

\* readable.match(/\*\s*([^0]+)/): the leftmost '*' at which the pattern matches
StarMatch(s) ==
    LET at == {i \in 1..Len(s) : s[i] = "*" /\ StarGroupAt(s, i).ok}
    IN  IF at = {} THEN [ok |-> FALSE, group |-> <<>>]
        ELSE StarGroupAt(s, MinOf(at))

\* readable.split(/\s{2,}/)
RECURSIVE SplitWide(_)
SplitWide(s) ==
    LET two == {i \in 1..(Len(s) - 1) : s[i] \in WS /\ s[i + 1] \in WS}
    IN  IF two = {} THEN <<s>>
        ELSE LET i == MinOf(two)
                 j == Scan(s, i, WS, FALSE)
             IN  <<SubSeq(s, 1, i - 1)>> \o SplitWide(SubSeq(s, j, Len(s)))

\* part.replace(/^[\s\d*]+/, '').trim()
Cleaned(part) ==
    Trim(SubSeq(part, Scan(part, 1, WS \cup Digits \cup {"*"}, FALSE), Len(part)))

\* the condition of lines 197-201
Meaningful(part) ==
    /\ Len(part) > 0
    /\ \A i \in 1..Len(part) : part[i] # "-"
    /\ \E i \in 1..Len(part) : part[i] \notin HexDash

\* the fallback loop of lines 195-209
FallbackText(parts) ==
    LET good == {k \in 1..Len(parts) :
                    Meaningful(parts[k]) /\ Len(Cleaned(parts[k])) > 0}
    IN  IF good = {} THEN <<>> ELSE Cleaned(parts[MinOf(good)])

extractTextFromChunk(chunk) ==
    LET readable  == Readable(chunk)
        textMatch == StarMatch(readable)
    IN  IF textMatch.ok THEN Trim(textMatch.group)
        ELSE FallbackText(SplitWide(readable))

(***************************************************************************)
(* Inputs from the language server.                                        *)
(***************************************************************************)
\* response chunks: two that carry text and one that carries none
ChunkHi == <<"\t", "*", " ", "h", "i">>

ChunkOk == <<"o", "k", "\t">>

ChunkNoText == <<"\t", "0", "-", "f">>

Chunks == {ChunkHi, ChunkOk, ChunkNoText}

\* `${status}` of a grpc-status header that is absent
Undefined == "undefined"

\* trailers: grpc-status, and grpc-message percent-encoded as gRPC sends it
\* (an absent grpc-message and an empty one are both falsy: <<>>)
TrailerSet ==
    { [status |-> "0",       message |-> <<>>],
      [status |-> "13",      message |-> <<"n", "o", "%", "2", "0", "g", "o">>],
      [status |-> "13",      message |-> <<>>],
      [status |-> Undefined, message |-> <<>>] }

\* err.message of the errors the http2 session and stream emit
NetErrors == {<<"r", "e", "s", "e", "t">>}

\* decodeURIComponent on well-formed escapes of the characters the model uses
PctChar(a, b) ==
    IF <<a, b>> = <<"2", "0">> THEN " "
    ELSE IF <<a, b>> = <<"2", "A">> THEN "*"
    ELSE IF <<a, b>> = <<"2", "D">> THEN "-"
    ELSE "?"

RECURSIVE decodeURIComponent(_)
decodeURIComponent(s) ==
    IF s = <<>> THEN <<>>
    ELSE IF s[1] = "%" /\ Len(s) >= 3
         THEN <<PctChar(s[2], s[3])>> \o decodeURIComponent(SubSeq(s, 4, Len(s)))
         ELSE <<s[1]>> \o decodeURIComponent(Tail(s))

\* Array.prototype.join('') on a list of texts
RECURSIVE Join(_)
Join(texts) ==
    IF texts = <<>> THEN <<>> ELSE Head(texts) \o Join(Tail(texts))

(***************************************************************************)
(* Errors.  A message built by a template literal is kept as its parts:    *)
(* the literal text, the interpolated status and the interpolated detail.  *)
(***************************************************************************)
\* new WindsurfError(message, code)
WindsurfError(template, status, detail, code) ==
    [ name |-> "WindsurfError", code |-> code,
      template |-> template, status |-> status, detail |-> detail ]

\* the Error object a session or a stream emits
NodeError(msg) ==
    [ name |-> "Error", code |-> "", template |-> "", status |-> "", detail |-> msg ]

\* null
NoError ==
    [ name |-> "null", code |-> "", template |-> "", status |-> "", detail |-> <<>> ]

UnknownError == <<"U", "n", "k", "n", "o", "w", "n", " ", "e", "r", "r", "o", "r">>

\* `Connection failed: ${err.message}`, CONNECTION_FAILED
ConnectionFailed(err) ==
    WindsurfError("Connection failed: ", "", err, "CONNECTION_FAILED")

\* `Request failed: ${err.message}`, STREAM_ERROR
RequestFailed(err) ==
    WindsurfError("Request failed: ", "", err, "STREAM_ERROR")

\* `gRPC error ${status}: ${message ? decodeURIComponent(message) : 'Unknown error'}`
GrpcError(trailers) ==
    WindsurfError("gRPC error : ", trailers.status,
                  IF trailers.message # <<>>
                  THEN decodeURIComponent(trailers.message)
                  ELSE UnknownError,
                  "STREAM_ERROR")

(***************************************************************************)
(* streamChat: the promise and the three callbacks.                        *)
(***************************************************************************)
Pending == [state |-> "pending", value |-> <<>>, reason |-> NoError]

\* resolve and reject act on a pending promise only
resolve(promise, fullText) ==
    IF promise.state = "pending"
    THEN [state |-> "resolved", value |-> fullText, reason |-> NoError]
    ELSE promise

reject(promise, err) ==
    IF promise.state = "pending"
    THEN [state |-> "rejected", value |-> <<>>, reason |-> err]
    ELSE promise

\* one invocation of options.onChunk, options.onComplete or options.onError
onChunk(text) == [cb |-> "onChunk", text |-> text, err |-> NoError]

onComplete(fullText) == [cb |-> "onComplete", text |-> fullText, err |-> NoError]

onError(err) == [cb |-> "onError", text |-> <<>>, err |-> err]

\* state of one streamChat call; calls lists the callback invocations in order
ChatIdle ==
    [ started |-> FALSE, req |-> FALSE, chunks |-> <<>>, promise |-> Pending,
      calls |-> <<>>, closed |-> FALSE ]

\* lines 231-233 and 296: the promise is created, the session opened, the timer set
SC_start(s) == [s EXCEPT !.started = TRUE]

\* lines 235-242
SC_onClientError(s, err) ==
    [s EXCEPT !.calls = Append(@, onError(NodeError(err))),
              !.promise = reject(@, ConnectionFailed(err))]

\* lines 244-293: the request is made and its listeners are attached
SC_onConnect(s) == [s EXCEPT !.req = TRUE]

\* mutant: onChunk is called for every chunk, also with an empty text
SC_onData_unfiltered(s, chunk) ==
    [s EXCEPT !.chunks = Append(@, extractTextFromChunk(chunk)),
              !.calls = Append(@, onChunk(extractTextFromChunk(chunk)))]

\* lines 253-259
SC_onData(s, chunk) ==
    LET text == extractTextFromChunk(chunk)
    IN  IF text # <<>>
        THEN [s EXCEPT !.chunks = Append(@, text),
                       !.calls = Append(@, onChunk(text))]
        ELSE s

\* lines 261-272
SC_onTrailers(s, trailers) ==
    IF trailers.status # "0"
    THEN [s EXCEPT !.calls = Append(@, onError(GrpcError(trailers))),
                   !.promise = reject(@, GrpcError(trailers))]
    ELSE s

\* mutant: an end of stream with no fragment collected is reported as an error
SC_onEnd_rejectEmpty(s) ==
    IF s.chunks = <<>>
    THEN [s EXCEPT !.closed = TRUE,
                   !.calls = Append(@, onError(NodeError(<<"e", "m", "p", "t", "y">>))),
                   !.promise = reject(@, RequestFailed(<<"e", "m", "p", "t", "y">>))]
    ELSE [s EXCEPT !.closed = TRUE,
                   !.calls = Append(@, onComplete(Join(s.chunks))),
                   !.promise = resolve(@, Join(s.chunks))]

\* lines 274-279
SC_onEnd(s) ==
    [s EXCEPT !.closed = TRUE,
              !.calls = Append(@, onComplete(Join(s.chunks))),
              !.promise = resolve(@, Join(s.chunks))]

\* lines 281-289
SC_onReqError(s, err) ==
    [s EXCEPT !.closed = TRUE,
              !.calls = Append(@, onError(NodeError(err))),
              !.promise = reject(@, RequestFailed(err))]

\* mutant: the timeout is surfaced as an error
SC_onTimeout_reject(s) ==
    [s EXCEPT !.closed = TRUE,
              !.calls = Append(@, onError(NodeError(<<"t", "i", "m", "e", "o", "u", "t">>))),
              !.promise = reject(@, RequestFailed(<<"t", "i", "m", "e", "o", "u", "t">>))]

\* lines 296-301
SC_onTimeout(s) ==
    [s EXCEPT !.closed = TRUE,
              !.calls = Append(@, onComplete(Join(s.chunks))),
              !.promise = resolve(@, Join(s.chunks))]

(***************************************************************************)
(* streamChatGenerator.  pc is where the generator body stands:            *)
(*   idle      not started (no next() yet)                                 *)
(*   waiting   at the await of line 391, promise not resolved              *)
(*   woken     at the await of line 391, promise resolved, not resumed yet *)
(*   yielded   at the yield of line 389, value handed to the consumer      *)
(*   returned  the body has ended           thrown  line 399 has thrown    *)
(* yielded lists the values the yield of line 389 has produced, raised is  *)
(* the error line 399 has thrown.                                          *)
(***************************************************************************)
GenIdle ==
    [ pc |-> "idle", chunkQueue |-> <<>>, done |-> FALSE, error |-> NoError,
      resolveWait |-> FALSE, yielded |-> <<>>, raised |-> NoError,
      closed |-> FALSE ]

\* resolveWait?.(): resolving a promise twice does nothing
Gen_resolveWait(g) ==
    IF g.resolveWait /\ g.pc = "waiting" THEN [g EXCEPT !.pc = "woken"] ELSE g

\* lines 329-337
Gen_onClientError(g, err) ==
    Gen_resolveWait([g EXCEPT !.error = ConnectionFailed(err), !.done = TRUE])

\* mutant: the data handler enqueues without waking the consumer
Gen_onData_noWake(g, chunk) ==
    LET text == extractTextFromChunk(chunk)
    IN  IF text # <<>> THEN [g EXCEPT !.chunkQueue = Append(@, text)] ELSE g

\* mutant: the data handler drops a fragment when one is already buffered
Gen_onData_dropWhenBusy(g, chunk) ==
    LET text == extractTextFromChunk(chunk)
    IN  IF text # <<>> /\ g.chunkQueue = <<>>
        THEN Gen_resolveWait([g EXCEPT !.chunkQueue = Append(@, text)])
        ELSE g

\* lines 347-353
Gen_onData(g, chunk) ==
    LET text == extractTextFromChunk(chunk)
    IN  IF text # <<>>
        THEN Gen_resolveWait([g EXCEPT !.chunkQueue = Append(@, text)])
        ELSE g

\* lines 355-364
Gen_onTrailers(g, trailers) ==
    IF trailers.status # "0"
    THEN [g EXCEPT !.error = GrpcError(trailers)]
    ELSE g

\* lines 366-370
Gen_onEnd(g) ==
    Gen_resolveWait([g EXCEPT !.done = TRUE, !.closed = TRUE])

\* lines 372-381
Gen_onReqError(g, err) ==
    Gen_resolveWait([g EXCEPT !.error = RequestFailed(err), !.done = TRUE,
                              !.closed = TRUE])

\* mutant: pop() in place of shift()
Gen_loop_pop(g) ==
    IF ~g.done \/ Len(g.chunkQueue) > 0
    THEN IF Len(g.chunkQueue) > 0
         THEN [g EXCEPT !.pc = "yielded",
                        !.yielded = Append(@, g.chunkQueue[Len(g.chunkQueue)]),
                        !.chunkQueue = SubSeq(@, 1, Len(@) - 1)]
         ELSE [g EXCEPT !.pc = "waiting", !.resolveWait = TRUE]
    ELSE IF g.error # NoError
         THEN [g EXCEPT !.pc = "thrown", !.raised = g.error]
         ELSE [g EXCEPT !.pc = "returned"]

\* mutant: the error is thrown as soon as it is seen, before the queue is drained
Gen_loop_throwFirst(g) ==
    IF g.error # NoError /\ g.done
    THEN [g EXCEPT !.pc = "thrown", !.raised = g.error]
    ELSE IF ~g.done \/ Len(g.chunkQueue) > 0
    THEN IF Len(g.chunkQueue) > 0
         THEN [g EXCEPT !.pc = "yielded",
                        !.yielded = Append(@, Head(g.chunkQueue)),
                        !.chunkQueue = Tail(@)]
         ELSE [g EXCEPT !.pc = "waiting", !.resolveWait = TRUE]
    ELSE [g EXCEPT !.pc = "returned"]

\* lines 387-400, from the loop test to the next yield, await, return or throw
Gen_loop(g) ==
    IF ~g.done \/ Len(g.chunkQueue) > 0
    THEN IF Len(g.chunkQueue) > 0
         THEN [g EXCEPT !.pc = "yielded",
                        !.yielded = Append(@, Head(g.chunkQueue)),
                        !.chunkQueue = Tail(@)]
         ELSE [g EXCEPT !.pc = "waiting", !.resolveWait = TRUE]
    ELSE IF g.error # NoError
         THEN [g EXCEPT !.pc = "thrown", !.raised = g.error]
         ELSE [g EXCEPT !.pc = "returned"]

\* the first next(): lines 318-384 run, then the loop
Gen_start(g) == Gen_loop(g)

\* the continuation of the await: line 394, then the loop
Gen_resume(g) == Gen_loop([g EXCEPT !.resolveWait = FALSE])

\* next() on a generator suspended at the yield
Gen_next(g) == Gen_loop(g)

\* return() on a generator suspended at the yield, as a for await loop calls
\* it when it is left early: the body ends there; it has no finally block
Gen_return(g) == [g EXCEPT !.pc = "abandoned"]

(***************************************************************************)
(* createStreamingResponse and createNonStreamingResponse (plugin.ts).     *)
(* id, model and created are the same in every object of one response and  *)
(* are left out.                                                           *)
(***************************************************************************)
\* lines 408-446: the choice object of the chunk or of the completion
createOpenAICompatibleResponse(content, isStreaming, finishReason) ==
    IF isStreaming
    THEN [ object |-> "chat.completion.chunk", content |-> content,
           finish_reason |-> finishReason, error |-> NoError ]
    ELSE [ object |-> "chat.completion", content |-> content,
           finish_reason |-> IF finishReason = "null" THEN "stop" ELSE finishReason,
           error |-> NoError ]

\* `data: ${JSON.stringify({ error: { message: errorMessage } })}\n\n`
ErrorFrame(err) ==
    [ object |-> "error", content |-> <<>>, finish_reason |-> "null", error |-> err ]

\* 'data: [DONE]\n\n'
DoneFrame ==
    [ object |-> "[DONE]", content |-> <<>>, finish_reason |-> "null", error |-> NoError ]

\* the ReadableStream of createStreamingResponse: what was enqueued, and closed
SseIdle == [frames |-> <<>>, closed |-> FALSE]

\* lines 478-488: the body of the for await loop
Sse_onChunk(r, chunk) ==
    [r EXCEPT !.frames =
        Append(@, createOpenAICompatibleResponse(chunk, TRUE, "null"))]

\* lines 490-504
Sse_onReturn(r) ==
    [r EXCEPT !.frames = @ \o <<createOpenAICompatibleResponse(<<>>, TRUE, "stop"),
                                DoneFrame>>,
              !.closed = TRUE]

\* lines 505-514
Sse_onThrow(r, err) ==
    [r EXCEPT !.frames = Append(@, ErrorFrame(err)), !.closed = TRUE]

\* createNonStreamingResponse: the chunks array and the settled result
JsonIdle == [chunks |-> <<>>, state |-> "pending",
             response |-> createOpenAICompatibleResponse(<<>>, FALSE, "null")]

\* lines 546-548
Json_onChunk(r, chunk) == [r EXCEPT !.chunks = Append(@, chunk)]

\* mutant: join('\n') in place of join('')
Json_onReturn_newline(r) ==
    [r EXCEPT !.state = "resolved",
              !.response = createOpenAICompatibleResponse(
                  IF r.chunks = <<>> THEN <<>>
                  ELSE Tail(Join([i \in 1..Len(r.chunks) |-> <<"\n">> \o r.chunks[i]])),
                  FALSE, "stop")]

\* lines 550-557
Json_onReturn(r) ==
    [r EXCEPT !.state = "resolved",
              !.response = createOpenAICompatibleResponse(Join(r.chunks), FALSE, "stop")]

\* the generator's error leaves the async function: its promise rejects
Json_onThrow(r, err) ==
    [r EXCEPT !.state = "rejected", !.response = ErrorFrame(err)]

(***************************************************************************)
(* JSON values, JSON.parse and JSON.stringify.  A value is a record        *)
(* [t, v]: t the type, v the text of a string or number, the items of an   *)
(* array, the [k, val] entries of an object in insertion order.  The       *)
(* parser covers objects, arrays, strings with the escapes \" \\ \/ \n,    *)
(* integers and the three literals; the inputs of the model stay within    *)
(* that grammar.                                                           *)
(***************************************************************************)
JStr(s) == [t |-> "string", v |-> s]

JNum(digits) == [t |-> "number", v |-> digits]

JArr(items) == [t |-> "array", v |-> items]

JObj(entries) == [t |-> "object", v |-> entries]

JTrue == [t |-> "true", v |-> <<>>]

JFalse == [t |-> "false", v |-> <<>>]

JNull == [t |-> "null", v |-> <<>>]

\* the value of a property that does not exist
JUndefined == [t |-> "undefined", v |-> <<>>]

\* obj[key] = val on an object under construction
ObjSet(entries, key, val) ==
    IF \E i \in 1..Len(entries) : entries[i].k = key
    THEN [i \in 1..Len(entries) |->
            IF entries[i].k = key THEN [k |-> key, val |-> val] ELSE entries[i]]
    ELSE Append(entries, [k |-> key, val |-> val])

\* value.key
Prop(value, key) ==
    IF value.t = "object" /\ \E i \in 1..Len(value.v) : value.v[i].k = key
    THEN value.v[CHOOSE i \in 1..Len(value.v) : value.v[i].k = key].val
    ELSE JUndefined

\* value === 'text'
IsString(value, text) == value.t = "string" /\ value.v = text

ParseFail == [ok |-> FALSE, val |-> JNull, pos |-> 0]

ParseOk(val, pos) == [ok |-> TRUE, val |-> val, pos |-> pos]

\* is text the part of s that starts at index i
At(s, i, text) ==
    /\ i + Len(text) - 1 <= Len(s)
    /\ SubSeq(s, i, i + Len(text) - 1) = text

\* the characters of a string up to its closing quote
RECURSIVE ParseChars(_, _, _)
ParseChars(s, i, acc) ==
    IF i > Len(s) THEN ParseFail
    ELSE IF s[i] = "\"" THEN ParseOk(JStr(acc), i + 1)
    ELSE IF s[i] = "\\"
         THEN IF i + 1 <= Len(s) /\ s[i + 1] \in {"\"", "\\", "/"}
              THEN ParseChars(s, i + 2, Append(acc, s[i + 1]))
              ELSE IF i + 1 <= Len(s) /\ s[i + 1] = "n"
                   THEN ParseChars(s, i + 2, Append(acc, "\n"))
                   ELSE ParseFail
    ELSE IF s[i] \in {"\n", "\t"} THEN ParseFail
    ELSE ParseChars(s, i + 1, Append(acc, s[i]))

\* -?(0|[1-9][0-9]*)
ParseNumber(s, i) ==
    LET d == IF s[i] = "-" THEN i + 1 ELSE i
        e == Scan(s, d, Digits, FALSE)
    IN  IF e = d THEN ParseFail
        ELSE IF s[d] = "0" THEN ParseOk(JNum(SubSeq(s, i, d)), d + 1)
        ELSE ParseOk(JNum(SubSeq(s, i, e - 1)), e)

RECURSIVE ParseValue(_, _), ParseElements(_, _, _), ParseMembers(_, _, _)
ParseValue(s, from) ==
    LET i == Scan(s, from, WS, FALSE)
    IN  IF i > Len(s) THEN ParseFail
        ELSE IF s[i] = "{"
             THEN LET j == Scan(s, i + 1, WS, FALSE)
                  IN  IF j <= Len(s) /\ s[j] = "}" THEN ParseOk(JObj(<<>>), j + 1)
                      ELSE ParseMembers(s, j, <<>>)
        ELSE IF s[i] = "["
             THEN LET j == Scan(s, i + 1, WS, FALSE)
                  IN  IF j <= Len(s) /\ s[j] = "]" THEN ParseOk(JArr(<<>>), j + 1)
                      ELSE ParseElements(s, j, <<>>)
        ELSE IF s[i] = "\"" THEN ParseChars(s, i + 1, <<>>)
        ELSE IF s[i] \in Digits \cup {"-"} THEN ParseNumber(s, i)
        ELSE IF At(s, i, <<"t", "r", "u", "e">>) THEN ParseOk(JTrue, i + 4)
        ELSE IF At(s, i, <<"f", "a", "l", "s", "e">>) THEN ParseOk(JFalse, i + 5)
        ELSE IF At(s, i, <<"n", "u", "l", "l">>) THEN ParseOk(JNull, i + 4)
        ELSE ParseFail

\* the items of an array after '[' or ','
ParseElements(s, i, acc) ==
    LET item == ParseValue(s, i)
        j    == Scan(s, item.pos, WS, FALSE)
    IN  IF ~item.ok \/ j > Len(s) THEN ParseFail
        ELSE IF s[j] = "," THEN ParseElements(s, j + 1, Append(acc, item.val))
        ELSE IF s[j] = "]" THEN ParseOk(JArr(Append(acc, item.val)), j + 1)
        ELSE ParseFail

\* the members of an object after '{' or ','
ParseMembers(s, from, acc) ==
    LET i   == Scan(s, from, WS, FALSE)
        key == IF i <= Len(s) /\ s[i] = "\"" THEN ParseChars(s, i + 1, <<>>)
               ELSE ParseFail
        c   == Scan(s, key.pos, WS, FALSE)
    IN  IF ~key.ok \/ c > Len(s) \/ s[c] # ":" THEN ParseFail
        ELSE LET member == ParseValue(s, c + 1)
                 j      == Scan(s, member.pos, WS, FALSE)
                 next   == ObjSet(acc, key.val.v, member.val)
             IN  IF ~member.ok \/ j > Len(s) THEN ParseFail
                 ELSE IF s[j] = "," THEN ParseMembers(s, j + 1, next)
                 ELSE IF s[j] = "}" THEN ParseOk(JObj(next), j + 1)
                 ELSE ParseFail

\* JSON.parse(text): ok is FALSE where it throws
JSONparse(text) ==
    LET r == ParseValue(text, 1)
    IN  IF r.ok /\ Scan(text, r.pos, WS, FALSE) > Len(text)
        THEN [ok |-> TRUE, val |-> r.val]
        ELSE [ok |-> FALSE, val |-> JNull]

\* the quoted form of a string
RECURSIVE Quoted(_)
Quoted(s) ==
    IF s = <<>> THEN <<>>
    ELSE (IF s[1] \in {"\"", "\\"} THEN <<"\\", s[1]>>
          ELSE IF s[1] = "\n" THEN <<"\\", "n">>
          ELSE <<s[1]>>) \o Quoted(Tail(s))

\* JSON.stringify(value) of a value JSON.parse can return
RECURSIVE JSONstringify(_), StringifyItems(_), StringifyEntries(_)
JSONstringify(value) ==
    IF value.t = "string" THEN <<"\"">> \o Quoted(value.v) \o <<"\"">>
    ELSE IF value.t = "number" THEN value.v
    ELSE IF value.t = "array" THEN <<"[">> \o StringifyItems(value.v) \o <<"]">>
    ELSE IF value.t = "object" THEN <<"{">> \o StringifyEntries(value.v) \o <<"}">>
    ELSE IF value.t = "true" THEN <<"t", "r", "u", "e">>
    ELSE IF value.t = "false" THEN <<"f", "a", "l", "s", "e">>
    ELSE <<"n", "u", "l", "l">>

StringifyItems(items) ==
    IF items = <<>> THEN <<>>
    ELSE JSONstringify(Head(items))
         \o (IF Len(items) > 1 THEN <<",">> ELSE <<>>)
         \o StringifyItems(Tail(items))

StringifyEntries(entries) ==
    IF entries = <<>> THEN <<>>
    ELSE <<"\"">> \o Quoted(Head(entries).k) \o <<"\"", ":">>
         \o JSONstringify(Head(entries).val)
         \o (IF Len(entries) > 1 THEN <<",">> ELSE <<>>)
         \o StringifyEntries(Tail(entries))

(***************************************************************************)
(* The tool-call planner of plugin.ts: normalizeToolArguments and          *)
(* parseToolCallPlan.                                                      *)
(***************************************************************************)
\* \w, '.' and '-': the class [\w.-] of the tagged-call pattern
WordChars ==
    Digits \cup {"_", ".", "-"}
    \cup {"a", "b", "c", "d", "e", "f", "g", "h", "i", "j", "k", "l", "m",
          "n", "o", "p", "q", "r", "s", "t", "u", "v", "w", "x", "y", "z"}
    \cup {"A", "B", "C", "D", "E", "F", "G", "H", "I", "J", "K", "L", "M",
          "N", "O", "P", "Q", "R", "S", "T", "U", "V", "W", "X", "Y", "Z"}

\* the literal texts the planner compares with
TextAction == <<"a", "c", "t", "i", "o", "n">>

TextFinal == <<"f", "i", "n", "a", "l">>

TextContent == <<"c", "o", "n", "t", "e", "n", "t">>

TextToolCall == <<"t", "o", "o", "l", "_", "c", "a", "l", "l">>

TextToolCalls == <<"t", "o", "o", "l", "_", "c", "a", "l", "l", "s">>

TextName == <<"n", "a", "m", "e">>

TextArguments == <<"a", "r", "g", "u", "m", "e", "n", "t", "s">>

TagToolCall == <<"<", "t", "o", "o", "l", "_", "c", "a", "l", "l", ">">>

\* lines 330-332
LooksJson(trimmed) ==
    /\ trimmed # <<>>
    /\ \/ trimmed[1] = "{" /\ trimmed[Len(trimmed)] = "}"
       \/ trimmed[1] = "[" /\ trimmed[Len(trimmed)] = "]"

\* mutant: a text that parses is replaced by its parsed value as it is
RECURSIVE normalizeToolArguments_shallow(_)
normalizeToolArguments_shallow(raw) ==
    IF raw.t \in {"null", "undefined"} THEN JObj(<<>>)
    ELSE IF raw.t = "string"
         THEN LET trimmed == Trim(raw.v)
              IN  IF LooksJson(trimmed) /\ JSONparse(trimmed).ok
                  THEN JSONparse(trimmed).val
                  ELSE raw
    ELSE IF raw.t = "array"
         THEN JArr([i \in 1..Len(raw.v) |-> normalizeToolArguments_shallow(raw.v[i])])
    ELSE IF raw.t = "object"
         THEN JObj([i \in 1..Len(raw.v) |->
                     [k |-> raw.v[i].k,
                      val |-> normalizeToolArguments_shallow(raw.v[i].val)]])
    ELSE raw

RECURSIVE normalizeToolArguments(_)
normalizeToolArguments(raw) ==
    IF raw.t \in {"null", "undefined"} THEN JObj(<<>>)
    ELSE IF raw.t = "string"
         THEN LET trimmed == Trim(raw.v)
              IN  IF LooksJson(trimmed) /\ JSONparse(trimmed).ok
                  THEN normalizeToolArguments(JSONparse(trimmed).val)
                  ELSE raw
    ELSE IF raw.t = "array"
         THEN JArr([i \in 1..Len(raw.v) |-> normalizeToolArguments(raw.v[i])])
    ELSE IF raw.t = "object"
         THEN JObj([i \in 1..Len(raw.v) |->
                     [k |-> raw.v[i].k, val |-> normalizeToolArguments(raw.v[i].val)]])
    ELSE raw

\* ToolCallPlan | null
NullPlan == [action |-> "null", content |-> <<>>, tool_calls |-> <<>>]

FinalPlan(content) == [action |-> "final", content |-> content, tool_calls |-> <<>>]

ToolCallPlan(tool_calls) ==
    [action |-> "tool_call", content |-> <<>>, tool_calls |-> tool_calls]

\* the lookahead (?=\s*(?:<tool_call>|$)) at index i
TagLookahead(s, i) ==
    LET j == Scan(s, i, WS, FALSE)
    IN  j > Len(s) \/ At(s, j, TagToolCall)

\* /<tool_call>\s*([\w.-]+)\s*(\{[\s\S]*?\})(?=...)/ anchored at index i:
\* the name is the whole run of [\w.-], the body ends at the first '}' at
\* which the lookahead holds
TagMatchAt(s, i) ==
    LET n0 == Scan(s, i + Len(TagToolCall), WS, FALSE)
        n1 == Scan(s, n0, WordChars, FALSE)
        b  == Scan(s, n1, WS, FALSE)
        ends == {k \in (b + 1)..Len(s) : s[k] = "}" /\ TagLookahead(s, k + 1)}
    IN  IF At(s, i, TagToolCall) /\ n1 > n0 /\ b <= Len(s) /\ s[b] = "{"
           /\ ends # {}
        THEN [ok |-> TRUE, name |-> SubSeq(s, n0, n1 - 1),
              rawArgs |-> SubSeq(s, b, MinOf(ends)), last |-> MinOf(ends)]
        ELSE [ok |-> FALSE, name |-> <<>>, rawArgs |-> <<>>, last |-> 0]

\* [...output.matchAll(/.../g)] searching from index from
RECURSIVE MatchAll(_, _)
MatchAll(s, from) ==
    LET at == {i \in from..Len(s) : TagMatchAt(s, i).ok}
    IN  IF at = {} THEN <<>>
        ELSE LET m == TagMatchAt(s, MinOf(at))
             IN  <<m>> \o MatchAll(s, m.last + 1)

\* lines 368-375: the direct path for action 'tool_call'
DirectToolCalls(items) ==
    LET usable == SelectSeq(items, LAMBDA t : Prop(t, TextName).t = "string")
    IN  [i \in 1..Len(usable) |->
            [name |-> Prop(usable[i], TextName).v,
             arguments |-> normalizeToolArguments(Prop(usable[i], TextArguments))]]

\* lines 378-401: the catch branch
TaggedToolCalls(output) ==
    LET matches == MatchAll(output, 1)
        parsed  == SelectSeq(matches, LAMBDA m : JSONparse(m.rawArgs).ok)
    IN  [i \in 1..Len(parsed) |->
            [name |-> parsed[i].name,
             arguments |-> normalizeToolArguments(JSONparse(parsed[i].rawArgs).val)]]

\* mutant: the whole output is parsed, not the part from '{' to '}'
parseToolCallPlan_whole(output) ==
    LET parsed == JSONparse(output)
    IN  IF parsed.ok /\ IsString(Prop(parsed.val, TextAction), TextFinal)
           /\ Prop(parsed.val, TextContent).t = "string"
        THEN FinalPlan(Prop(parsed.val, TextContent).v)
        ELSE NullPlan

parseToolCallPlan(output) ==
    LET opens  == {i \in 1..Len(output) : output[i] = "{"}
        closes == {i \in 1..Len(output) : output[i] = "}"}
    IN  IF opens = {} \/ closes = {} \/ MaxOf(closes) <= MinOf(opens) THEN NullPlan
        ELSE LET jsonText == SubSeq(output, MinOf(opens), MaxOf(closes))
                 parsed   == JSONparse(jsonText)
             IN  IF parsed.ok
                 THEN IF IsString(Prop(parsed.val, TextAction), TextFinal)
                         /\ Prop(parsed.val, TextContent).t = "string"
                      THEN FinalPlan(Prop(parsed.val, TextContent).v)
                      ELSE IF IsString(Prop(parsed.val, TextAction), TextToolCall)
                              /\ Prop(parsed.val, TextToolCalls).t = "array"
                           THEN ToolCallPlan(DirectToolCalls(Prop(parsed.val, TextToolCalls).v))
                           ELSE NullPlan
                 ELSE IF Len(TaggedToolCalls(output)) = 0 THEN NullPlan
                      ELSE ToolCallPlan(TaggedToolCalls(output))

(***************************************************************************)
(* handleToolPlanning and handleToolPlanningStream (plugin.ts).  id, model *)
(* and created are left out of the objects, as above.                      *)
(*   pc        NoTools, Planning, Parsed, Final, ToolCall, Failed          *)
(*   calls     the streamChatGenerator invocations, by message roles       *)
(*   chunks    the fragments runWindsurfOnce has collected                 *)
(*   content   the joined text, plan the result of parseToolCallPlan       *)
(*   status, frames, closed   the HTTP response                            *)
(***************************************************************************)
PlanIdle ==
    [ pc |-> "NoTools", isStreaming |-> FALSE, calls |-> <<>>, chunks |-> <<>>,
      content |-> <<>>, plan |-> NullPlan, status |-> 0, frames |-> <<>>,
      closed |-> FALSE ]

\* the message or delta of a planning response
PlanFrame(object, content, tool_calls, finishReason, err) ==
    [ object |-> object, content |-> content, tool_calls |-> tool_calls,
      finish_reason |-> finishReason, error |-> err ]

\* lines 75-82 and 151-159: function.name and function.arguments of each call
MappedToolCalls(tool_calls) ==
    [i \in 1..Len(tool_calls) |->
        [name |-> tool_calls[i].name,
         arguments |-> JSONstringify(tool_calls[i].arguments)]]

\* mutant: the bridge is called a second time with the same prompt
Plan_start_twice(p, isStreaming) ==
    [p EXCEPT !.pc = "Planning", !.isStreaming = isStreaming,
              !.calls = @ \o <<[roles |-> <<"user">>], [roles |-> <<"user">>]>>,
              !.status = IF isStreaming THEN 200 ELSE 0]

\* lines 53-56 (and 143, 175-182 of the caller: the streamed response has
\* status 200 from the start)
Plan_start(p, isStreaming) ==
    [p EXCEPT !.pc = "Planning", !.isStreaming = isStreaming,
              !.calls = Append(@, [roles |-> <<"user">>]),
              !.status = IF isStreaming THEN 200 ELSE 0]

\* line 58
Plan_onChunk(p, chunk) == [p EXCEPT !.chunks = Append(@, chunk)]

\* lines 60 and 69-71
Plan_parse(p) ==
    [p EXCEPT !.pc = "Parsed", !.content = Join(p.chunks),
              !.plan = parseToolCallPlan(Join(p.chunks))]

\* mutant: an output that gives no plan is answered with an error
Plan_respond_strict(p) ==
    IF p.plan.action = "null"
    THEN [p EXCEPT !.pc = "Failed", !.status = IF p.isStreaming THEN 200 ELSE 500,
                   !.frames = <<PlanFrame("error", <<>>, <<>>, "null",
                                          NodeError(p.content))>>,
                   !.closed = TRUE]
    ELSE [p EXCEPT !.pc = "Final", !.status = 200, !.closed = TRUE,
                   !.frames = <<PlanFrame("chat.completion", p.plan.content, <<>>,
                                          "stop", NoError)>>]

\* lines 109-135 (handleToolPlanning) and 147-200 (handleToolPlanningStream)
Plan_respond(p) ==
    LET object == IF p.isStreaming THEN "chat.completion.chunk" ELSE "chat.completion"
        done   == IF p.isStreaming
                  THEN <<PlanFrame("[DONE]", <<>>, <<>>, "null", NoError)>>
                  ELSE <<>>
    IN  IF p.plan.action = "tool_call"
        THEN [p EXCEPT !.pc = "ToolCall", !.status = 200, !.closed = TRUE,
                       !.frames = <<PlanFrame(object, <<>>,
                                              MappedToolCalls(p.plan.tool_calls),
                                              "tool_calls", NoError)>> \o done]
        ELSE [p EXCEPT !.pc = "Final", !.status = 200, !.closed = TRUE,
                       !.frames = <<PlanFrame(object,
                                              IF p.plan.action = "final"
                                              THEN p.plan.content ELSE p.content,
                                              <<>>, "stop", NoError)>> \o done]

\* the bridge call throws: lines 201-206 (error frame, [DONE], close) when
\* streaming, otherwise the catch of the caller (line 686) answers with 500
Plan_onThrow(p, err) ==
    [p EXCEPT !.pc = "Failed", !.closed = TRUE,
              !.status = IF p.isStreaming THEN 200 ELSE 500,
              !.frames = <<PlanFrame("error", <<>>, <<>>, "null", err)>>
                         \o (IF p.isStreaming
                             THEN <<PlanFrame("[DONE]", <<>>, <<>>, "null", NoError)>>
                             ELSE <<>>)]

\* what the language server answers to a tool prompt, cut into chunks
ChunkNoise == <<"\t", "n", "o", "i", "s", "e", " ", "\"", "x", "\"", "]">>

ChunkFinal == <<"\t", "{", "\"", "a", "c", "t", "i", "o", "n", "\"", ":", "\"", "f", "i", "n", "a", "l", "\"", ",", "\"", "c", "o", "n", "t", "e", "n", "t", "\"", ":", "\"", "d", "o", "n", "e", "\"", "}">>

ChunkTagged == <<"\t", "<", "t", "o", "o", "l", "_", "c", "a", "l", "l", ">", "r", "e", "a", "d", " ", "{", "\"", "p", "\"", ":", "\"", "[", "1", "]", "\"", "}">>

ChunkCallsOpen == <<"\t", "{", "\"", "a", "c", "t", "i", "o", "n", "\"", ":", "\"", "t", "o", "o", "l", "_", "c", "a", "l", "l", "\"", ",", "\"", "t", "o", "o", "l", "_", "c", "a", "l", "l", "s", "\"", ":", "[">>

ChunkCall == <<"\t", "{", "\"", "n", "a", "m", "e", "\"", ":", "\"", "f", "\"", ",", "\"", "a", "r", "g", "u", "m", "e", "n", "t", "s", "\"", ":", "\"", "{", "}", "\"", "}">>

ChunkCallsClose == <<"\t", "]", "}">>

PlanChunks ==
    {ChunkNoise, ChunkFinal, ChunkTagged, ChunkCallsOpen, ChunkCall, ChunkCallsClose}

(***************************************************************************)
(* One application of normalizeToolArguments to raw, and a second to its   *)
(* result.                                                                 *)
(***************************************************************************)
NormIdle == [stage |-> 0, raw |-> JNull, once |-> JNull, twice |-> JNull]

(***************************************************************************)
(* The wire encoder and the request builder of grpc-client.ts.  Bytes are  *)
(* numbers 0..255; Date.now() and crypto.randomUUID() are parameters.      *)
(***************************************************************************)
\* the printable ASCII characters, \x20 first ("grave" holds the place of \x60)
Ascii == <<
    " ", "!", "\"", "#", "$", "%", "&", "'", "(", ")", "*", "+",
    ",", "-", ".", "/", "0", "1", "2", "3", "4", "5", "6", "7",
    "8", "9", ":", ";", "<", "=", ">", "?", "@", "A", "B", "C",
    "D", "E", "F", "G", "H", "I", "J", "K", "L", "M", "N", "O",
    "P", "Q", "R", "S", "T", "U", "V", "W", "X", "Y", "Z", "[",
    "\\", "]", "^", "_", "grave", "a", "b", "c", "d", "e", "f", "g",
    "h", "i", "j", "k", "l", "m", "n", "o", "p", "q", "r", "s",
    "t", "u", "v", "w", "x", "y", "z", "{", "|", "}", "~" >>

\* the byte of each printable character: \x20 is 32
CharCodes ==
    [c \in {Ascii[i] : i \in 1..Len(Ascii)} |->
        31 + CHOOSE i \in 1..Len(Ascii) : Ascii[i] = c]

\* the code of a character below \x7F
Code(c) ==
    IF c = "\n" THEN 10
    ELSE IF c = "\t" THEN 9
    ELSE CharCodes[c]

\* characters above \x7F, by name, and their code points (U+00E9, U+20AC)
WideChars == {"eacute", "euro"}

CodePoint(c) ==
    IF c = "eacute" THEN 233
    ELSE IF c = "euro" THEN 8364
    ELSE Code(c)

\* the UTF-8 bytes of one character of the basic plane
Utf8Char(c) ==
    LET cp == CodePoint(c)
    IN  IF cp < 128 THEN <<cp>>
        ELSE IF cp < 2048 THEN <<192 + (cp \div 64), 128 + (cp % 64)>>
        ELSE <<224 + (cp \div 4096), 128 + ((cp \div 64) % 64), 128 + (cp % 64)>>

RECURSIVE Utf8From(_, _)
Utf8From(str, i) ==
    IF i > Len(str) THEN <<>> ELSE Utf8Char(str[i]) \o Utf8From(str, i + 1)

\* Buffer.from(str, 'utf8'): one byte per character when all are below \x7F
Utf8(str) ==
    IF \A i \in 1..Len(str) : str[i] \notin WideChars
    THEN [i \in 1..Len(str) |-> Code(str[i])]
    ELSE Utf8From(str, 1)

\* lines 38-47
RECURSIVE encodeVarint(_)
encodeVarint(value) ==
    IF value > 127
    THEN <<(value % 128) + 128>> \o encodeVarint(value \div 128)
    ELSE <<value>>

\* mutant: the length written is the number of characters
encodeString_charLength(fieldNum, str) ==
    <<fieldNum * 8 + 2>> \o encodeVarint(Len(str)) \o Utf8(str)

\* lines 52-55
encodeString(fieldNum, str) ==
    <<fieldNum * 8 + 2>> \o encodeVarint(Len(Utf8(str))) \o Utf8(str)

\* lines 60-62
encodeMessage(fieldNum, data) ==
    <<fieldNum * 8 + 2>> \o encodeVarint(Len(data)) \o data

\* lines 67-69
encodeVarintField(fieldNum, value) ==
    <<fieldNum * 8>> \o encodeVarint(value)

\* lines 78-92; now is Date.now(), sessionId is crypto.randomUUID()
encodeMetadata(apiKey, version, now, sessionId) ==
    encodeString(1, <<"w", "i", "n", "d", "s", "u", "r", "f", "-", "n", "e", "x", "t">>)
    \o encodeString(2, version)
    \o encodeString(3, apiKey)
    \o encodeString(4, <<"e", "n">>)
    \o encodeString(7, version)
    \o encodeVarintField(9, now)
    \o encodeString(10, sessionId)
    \o encodeString(12, <<"w", "i", "n", "d", "s", "u", "r", "f">>)

\* lines 97-102
encodeTimestamp(now) ==
    encodeVarintField(1, now \div 1000)
    \o encodeVarintField(2, (now % 1000) * 1000000)

\* lines 107-109
encodeIntentGeneric(text) == encodeString(1, text)

\* lines 114-117
encodeChatMessageIntent(text) == encodeMessage(1, encodeIntentGeneric(text))

\* lines 122-135; msgId and convId are crypto.randomUUID()
encodeChatMessage(source, text, now, msgId, convId) ==
    encodeString(1, msgId)
    \o encodeVarintField(2, source)
    \o encodeMessage(3, encodeTimestamp(now))
    \o encodeString(4, convId)
    \o encodeMessage(5, encodeChatMessageIntent(text))

\* ChatMessageSource.USER
USER == 1

\* mutant: the first user message is taken as the prompt
LastUserContent_first(messages) ==
    LET users == SelectSeq(messages, LAMBDA m : m.role = "user")
    IN  IF users = <<>> THEN <<>> ELSE users[1].content

\* messages.filter((m) => m.role === 'user').pop()?.content || ''
LastUserContent(messages) ==
    LET users == SelectSeq(messages, LAMBDA m : m.role = "user")
    IN  IF users = <<>> THEN <<>> ELSE users[Len(users)].content

\* writeUInt32BE
UInt32BE(n) ==
    <<n \div 16777216, (n \div 65536) % 256, (n \div 256) % 256, n % 256>>

\* mutant: no chat-turn block is sent when there is no prompt
buildChatRequest_skipEmpty(apiKey, version, modelEnum, messages, now, uuids) ==
    LET metadata    == encodeMetadata(apiKey, version, now, uuids[1])
        prompt      == LastUserContent(messages)
        chatMessage == encodeChatMessage(USER, prompt, now, uuids[2], uuids[3])
        payload     == encodeMessage(1, metadata)
                       \o (IF prompt = <<>> THEN <<>> ELSE encodeMessage(2, chatMessage))
                       \o encodeVarintField(4, modelEnum)
    IN  <<0>> \o UInt32BE(Len(payload)) \o payload

\* lines 146-160: the request message, as the bytes of Buffer.from(request);
\* uuids are the three values crypto.randomUUID() returns, in the order of
\* the calls (session, message, conversation)
RequestPayload(apiKey, version, modelEnum, messages, now, uuids) ==
    LET metadata    == encodeMetadata(apiKey, version, now, uuids[1])
        prompt      == LastUserContent(messages)
        chatMessage == encodeChatMessage(USER, prompt, now, uuids[2], uuids[3])
        request     == encodeMessage(1, metadata)
                       \o encodeMessage(2, chatMessage)
                       \o encodeVarintField(4, modelEnum)
    IN  [i \in 1..Len(request) |-> request[i] % 256]

\* mutant: the length prefix counts the five header bytes too
GrpcFrame_countsHeader(payload) ==
    <<0>> \o UInt32BE(5 + Len(payload)) \o payload

\* lines 162-168: Buffer.alloc(5 + n) is zero-filled, then byte 0, the
\* length at offset 1 and the payload at offset 5 are written
GrpcFrame(payload) ==
    LET n      == Len(payload)
        length == UInt32BE(n)
    IN  [i \in 1..(5 + n) |->
            IF i = 1 THEN 0
            ELSE IF i <= 5 THEN length[i - 1]
            ELSE payload[i - 5]]

\* lines 140-169
buildChatRequest(apiKey, version, modelEnum, messages, now, uuids) ==
    GrpcFrame(RequestPayload(apiKey, version, modelEnum, messages, now, uuids))

\* plugin.ts lines 463-471 and 531-539: assistant and tool messages are
\* dropped, a content given in parts becomes the join of the part texts
ConvertMessages(requestMessages) ==
    LET kept == SelectSeq(requestMessages,
                          LAMBDA m : m.role \notin {"assistant", "tool"})
    IN  [i \in 1..Len(kept) |->
            [role |-> kept[i].role, content |-> Join(kept[i].parts)]]

(***************************************************************************)
(* Decoding, to read back what a request carries.                          *)
(***************************************************************************)
\* the varint that starts at index i: its value and the index after it
RECURSIVE DecodeVarint(_, _)
DecodeVarint(bytes, i) ==
    IF i > Len(bytes) THEN [ok |-> FALSE, value |-> 0, next |-> i]
    ELSE IF bytes[i] < 128 THEN [ok |-> TRUE, value |-> bytes[i], next |-> i + 1]
    ELSE LET rest == DecodeVarint(bytes, i + 1)
         IN  [ok |-> rest.ok, value |-> (bytes[i] - 128) + 128 * rest.value,
              next |-> rest.next]

\* the fields of a message from index i on; a field that cannot be decoded
\* is reported with wire type -1 and ends the list
RECURSIVE DecodeFields(_, _)
DecodeFields(bytes, i) ==
    IF i > Len(bytes) THEN <<>>
    ELSE LET field == bytes[i] \div 8
             type  == bytes[i] % 8
             v     == DecodeVarint(bytes, i + 1)
             bad   == <<[field |-> field, type |-> -1, value |-> 0, data |-> <<>>]>>
         IN  IF ~v.ok THEN bad
             ELSE IF type = 0
                  THEN <<[field |-> field, type |-> 0, value |-> v.value, data |-> <<>>]>>
                       \o DecodeFields(bytes, v.next)
             ELSE IF type = 2 /\ v.next + v.value - 1 <= Len(bytes)
                  THEN <<[field |-> field, type |-> 2, value |-> v.value,
                          data |-> SubSeq(bytes, v.next, v.next + v.value - 1)]>>
                       \o DecodeFields(bytes, v.next + v.value)
             ELSE bad

\* the payload of a gRPC frame: after the compression flag and the length
FramePayload(frame) == SubSeq(frame, 6, Len(frame))

\* the first field of a message with the given number
FieldOf(fields, n) == fields[CHOOSE i \in 1..Len(fields) : fields[i].field = n]

(***************************************************************************)
(* Inputs of the request builder.                                          *)
(***************************************************************************)
\* the credentials
ApiKey == <<"s", "k", "-", "w", "s", "-", "0", "1", "-", "0", "1", "2", "3", "4", "5", "6", "7", "8", "9", "a", "b", "c", "d", "e", "f">>

Version == <<"1", ".", "4", "8">>

\* ModelEnum values (README, Model Enum Values)
ModelEnums == {340, 353}

\* Date.now() when the model starts
Epoch == 1999

\* the clock advances by at most this many milliseconds
MaxTicks == 1

\* at most this many requests are built
MaxCalls == 2

\* the n-th value of crypto.randomUUID(): never one it has returned before
UUID(n) ==
    <<"0", "0", "0", "0", "0", "0", "0", "0", "-", "0", "0", "0", "0", "-", "4", "0", "0", "0", "-", "8", "0", "0", "0", "-", "0", "0", "0", "0", "0", "0", "0", "0", "0", "0">>
    \o <<Ascii[17 + ((n \div 10) % 10)], Ascii[17 + (n % 10)]>>

\* text contents of messages
TextHi == <<"h", "i">>

TextLong == <<"s", "u", "m", "m", "a", "r", "i", "s", "e", " ", "t", "h", "e", " ", "d", "e", "s", "i", "g", "n", " ", "o", "f", " ", "t", "h", "e", " ", "w", "i", "r", "e", " ", "e", "n", "c", "o", "d", "e", "r", " ", "p", "l", "e", "a", "s", "e">>

Msg(role, parts) == [role |-> role, parts |-> parts]

\* request.messages; parts lists the text parts of the content, a string
\* content being one part
MessageLists ==
    { <<>>,
      <<Msg("user", <<TextHi>>)>>,
      <<Msg("system", <<TextLong>>), Msg("user", <<TextHi>>), Msg("tool", <<TextLong>>)>>,
      <<Msg("user", <<TextLong>>), Msg("user", <<TextHi>>)>>,
      <<Msg("assistant", <<TextHi>>), Msg("user", <<TextLong, TextHi>>)>>,
      <<Msg("user", <<TextHi>>), Msg("user", <<>>)>> }

\* the request builder: the clock, how many UUIDs were drawn, and the
\* requests built so far
WireIdle == [now |-> Epoch, uuids |-> 0, requests |-> <<>>]

\* one call that builds a request (grpc-client.ts lines 228-229, 319-320)
Wire_build(w, requestMessages, modelEnum) ==
    LET ids == <<UUID(w.uuids), UUID(w.uuids + 1), UUID(w.uuids + 2)>>
    IN  [w EXCEPT !.uuids = @ + 3,
                  !.requests = Append(@,
                      [ requestMessages |-> requestMessages,
                        messages |-> ConvertMessages(requestMessages),
                        modelEnum |-> modelEnum, now |-> w.now, ids |-> ids,
                        payload |-> RequestPayload(ApiKey, Version, modelEnum,
                                      ConvertMessages(requestMessages), w.now, ids),
                        frame |-> buildChatRequest(ApiKey, Version, modelEnum,
                                      ConvertMessages(requestMessages), w.now, ids) ])]

(***************************************************************************)
(* The model registry (models.ts).  A model name is a text; a ModelEnum    *)
(* member is written by its name.                                          *)
(***************************************************************************)
\* lines 22-210, in the order of the object literal
MODEL_NAME_TO_ENUM == <<
    [name |-> <<"c", "l", "a", "u", "d", "e", "-", "3", "-", "o", "p", "u", "s">>, enum |-> "CLAUDE_3_OPUS_20240229"],
    [name |-> <<"c", "l", "a", "u", "d", "e", "-", "3", "-", "o", "p", "u", "s", "-", "2", "0", "2", "4", "0", "2", "2", "9">>, enum |-> "CLAUDE_3_OPUS_20240229"],
    [name |-> <<"c", "l", "a", "u", "d", "e", "-", "3", "-", "s", "o", "n", "n", "e", "t">>, enum |-> "CLAUDE_3_SONNET_20240229"],
    [name |-> <<"c", "l", "a", "u", "d", "e", "-", "3", "-", "s", "o", "n", "n", "e", "t", "-", "2", "0", "2", "4", "0", "2", "2", "9">>, enum |-> "CLAUDE_3_SONNET_20240229"],
    [name |-> <<"c", "l", "a", "u", "d", "e", "-", "3", "-", "h", "a", "i", "k", "u">>, enum |-> "CLAUDE_3_HAIKU_20240307"],
    [name |-> <<"c", "l", "a", "u", "d", "e", "-", "3", "-", "h", "a", "i", "k", "u", "-", "2", "0", "2", "4", "0", "3", "0", "7">>, enum |-> "CLAUDE_3_HAIKU_20240307"],
    [name |-> <<"c", "l", "a", "u", "d", "e", "-", "3", ".", "5", "-", "s", "o", "n", "n", "e", "t">>, enum |-> "CLAUDE_3_5_SONNET_20241022"],
    [name |-> <<"c", "l", "a", "u", "d", "e", "-", "3", "-", "5", "-", "s", "o", "n", "n", "e", "t">>, enum |-> "CLAUDE_3_5_SONNET_20241022"],
    [name |-> <<"c", "l", "a", "u", "d", "e", "-", "3", "-", "5", "-", "s", "o", "n", "n", "e", "t", "-", "2", "0", "2", "4", "1", "0", "2", "2">>, enum |-> "CLAUDE_3_5_SONNET_20241022"],
    [name |-> <<"c", "l", "a", "u", "d", "e", "-", "3", ".", "5", "-", "h", "a", "i", "k", "u">>, enum |-> "CLAUDE_3_5_HAIKU_20241022"],
    [name |-> <<"c", "l", "a", "u", "d", "e", "-", "3", "-", "5", "-", "h", "a", "i", "k", "u">>, enum |-> "CLAUDE_3_5_HAIKU_20241022"],
    [name |-> <<"c", "l", "a", "u", "d", "e", "-", "3", "-", "5", "-", "h", "a", "i", "k", "u", "-", "2", "0", "2", "4", "1", "0", "2", "2">>, enum |-> "CLAUDE_3_5_HAIKU_20241022"],
    [name |-> <<"c", "l", "a", "u", "d", "e", "-", "3", ".", "7", "-", "s", "o", "n", "n", "e", "t">>, enum |-> "CLAUDE_3_7_SONNET_20250219"],
    [name |-> <<"c", "l", "a", "u", "d", "e", "-", "3", "-", "7", "-", "s", "o", "n", "n", "e", "t">>, enum |-> "CLAUDE_3_7_SONNET_20250219"],
    [name |-> <<"c", "l", "a", "u", "d", "e", "-", "3", "-", "7", "-", "s", "o", "n", "n", "e", "t", "-", "2", "0", "2", "5", "0", "2", "1", "9">>, enum |-> "CLAUDE_3_7_SONNET_20250219"],
    [name |-> <<"c", "l", "a", "u", "d", "e", "-", "3", ".", "7", "-", "s", "o", "n", "n", "e", "t", "-", "t", "h", "i", "n", "k", "i", "n", "g">>, enum |-> "CLAUDE_3_7_SONNET_20250219_THINKING"],
    [name |-> <<"c", "l", "a", "u", "d", "e", "-", "3", "-", "7", "-", "s", "o", "n", "n", "e", "t", "-", "t", "h", "i", "n", "k", "i", "n", "g">>, enum |-> "CLAUDE_3_7_SONNET_20250219_THINKING"],
    [name |-> <<"c", "l", "a", "u", "d", "e", "-", "4", "-", "o", "p", "u", "s">>, enum |-> "CLAUDE_4_OPUS"],
    [name |-> <<"c", "l", "a", "u", "d", "e", "-", "4", "-", "o", "p", "u", "s", "-", "t", "h", "i", "n", "k", "i", "n", "g">>, enum |-> "CLAUDE_4_OPUS_THINKING"],
    [name |-> <<"c", "l", "a", "u", "d", "e", "-", "4", "-", "s", "o", "n", "n", "e", "t">>, enum |-> "CLAUDE_4_SONNET"],
    [name |-> <<"c", "l", "a", "u", "d", "e", "-", "4", "-", "s", "o", "n", "n", "e", "t", "-", "t", "h", "i", "n", "k", "i", "n", "g">>, enum |-> "CLAUDE_4_SONNET_THINKING"],
    [name |-> <<"c", "l", "a", "u", "d", "e", "-", "4", ".", "1", "-", "o", "p", "u", "s">>, enum |-> "CLAUDE_4_1_OPUS"],
    [name |-> <<"c", "l", "a", "u", "d", "e", "-", "4", "-", "1", "-", "o", "p", "u", "s">>, enum |-> "CLAUDE_4_1_OPUS"],
    [name |-> <<"c", "l", "a", "u", "d", "e", "-", "4", ".", "1", "-", "o", "p", "u", "s", "-", "t", "h", "i", "n", "k", "i", "n", "g">>, enum |-> "CLAUDE_4_1_OPUS_THINKING"],
    [name |-> <<"c", "l", "a", "u", "d", "e", "-", "4", "-", "1", "-", "o", "p", "u", "s", "-", "t", "h", "i", "n", "k", "i", "n", "g">>, enum |-> "CLAUDE_4_1_OPUS_THINKING"],
    [name |-> <<"c", "l", "a", "u", "d", "e", "-", "4", ".", "5", "-", "s", "o", "n", "n", "e", "t">>, enum |-> "CLAUDE_4_5_SONNET"],
    [name |-> <<"c", "l", "a", "u", "d", "e", "-", "4", "-", "5", "-", "s", "o", "n", "n", "e", "t">>, enum |-> "CLAUDE_4_5_SONNET"],
    [name |-> <<"c", "l", "a", "u", "d", "e", "-", "4", ".", "5", "-", "s", "o", "n", "n", "e", "t", "-", "t", "h", "i", "n", "k", "i", "n", "g">>, enum |-> "CLAUDE_4_5_SONNET_THINKING"],
    [name |-> <<"c", "l", "a", "u", "d", "e", "-", "4", "-", "5", "-", "s", "o", "n", "n", "e", "t", "-", "t", "h", "i", "n", "k", "i", "n", "g">>, enum |-> "CLAUDE_4_5_SONNET_THINKING"],
    [name |-> <<"c", "l", "a", "u", "d", "e", "-", "4", ".", "5", "-", "s", "o", "n", "n", "e", "t", "-", "1", "m">>, enum |-> "CLAUDE_4_5_SONNET_1M"],
    [name |-> <<"c", "l", "a", "u", "d", "e", "-", "4", "-", "5", "-", "s", "o", "n", "n", "e", "t", "-", "1", "m">>, enum |-> "CLAUDE_4_5_SONNET_1M"],
    [name |-> <<"c", "l", "a", "u", "d", "e", "-", "4", ".", "5", "-", "o", "p", "u", "s">>, enum |-> "CLAUDE_4_5_OPUS"],
    [name |-> <<"c", "l", "a", "u", "d", "e", "-", "4", "-", "5", "-", "o", "p", "u", "s">>, enum |-> "CLAUDE_4_5_OPUS"],
    [name |-> <<"c", "l", "a", "u", "d", "e", "-", "4", ".", "5", "-", "o", "p", "u", "s", "-", "t", "h", "i", "n", "k", "i", "n", "g">>, enum |-> "CLAUDE_4_5_OPUS_THINKING"],
    [name |-> <<"c", "l", "a", "u", "d", "e", "-", "4", "-", "5", "-", "o", "p", "u", "s", "-", "t", "h", "i", "n", "k", "i", "n", "g">>, enum |-> "CLAUDE_4_5_OPUS_THINKING"],
    [name |-> <<"c", "l", "a", "u", "d", "e", "-", "c", "o", "d", "e">>, enum |-> "CLAUDE_CODE"],
    [name |-> <<"g", "p", "t", "-", "4">>, enum |-> "GPT_4"],
    [name |-> <<"g", "p", "t", "-", "4", "-", "t", "u", "r", "b", "o">>, enum |-> "GPT_4_1106_PREVIEW"],
    [name |-> <<"g", "p", "t", "-", "4", "-", "1", "1", "0", "6", "-", "p", "r", "e", "v", "i", "e", "w">>, enum |-> "GPT_4_1106_PREVIEW"],
    [name |-> <<"g", "p", "t", "-", "4", "o">>, enum |-> "GPT_4O_2024_08_06"],
    [name |-> <<"g", "p", "t", "-", "4", "o", "-", "2", "0", "2", "4", "-", "0", "8", "-", "0", "6">>, enum |-> "GPT_4O_2024_08_06"],
    [name |-> <<"g", "p", "t", "-", "4", "o", "-", "m", "i", "n", "i">>, enum |-> "GPT_4O_MINI_2024_07_18"],
    [name |-> <<"g", "p", "t", "-", "4", "o", "-", "m", "i", "n", "i", "-", "2", "0", "2", "4", "-", "0", "7", "-", "1", "8">>, enum |-> "GPT_4O_MINI_2024_07_18"],
    [name |-> <<"g", "p", "t", "-", "4", ".", "5">>, enum |-> "GPT_4_5"],
    [name |-> <<"g", "p", "t", "-", "4", "-", "5">>, enum |-> "GPT_4_5"],
    [name |-> <<"g", "p", "t", "-", "4", ".", "1">>, enum |-> "GPT_4_1_2025_04_14"],
    [name |-> <<"g", "p", "t", "-", "4", "-", "1">>, enum |-> "GPT_4_1_2025_04_14"],
    [name |-> <<"g", "p", "t", "-", "4", ".", "1", "-", "m", "i", "n", "i">>, enum |-> "GPT_4_1_MINI_2025_04_14"],
    [name |-> <<"g", "p", "t", "-", "4", "-", "1", "-", "m", "i", "n", "i">>, enum |-> "GPT_4_1_MINI_2025_04_14"],
    [name |-> <<"g", "p", "t", "-", "4", ".", "1", "-", "n", "a", "n", "o">>, enum |-> "GPT_4_1_NANO_2025_04_14"],
    [name |-> <<"g", "p", "t", "-", "4", "-", "1", "-", "n", "a", "n", "o">>, enum |-> "GPT_4_1_NANO_2025_04_14"],
    [name |-> <<"g", "p", "t", "-", "5">>, enum |-> "GPT_5"],
    [name |-> <<"g", "p", "t", "-", "5", "-", "n", "a", "n", "o">>, enum |-> "GPT_5_NANO"],
    [name |-> <<"g", "p", "t", "-", "5", "-", "l", "o", "w">>, enum |-> "GPT_5_LOW"],
    [name |-> <<"g", "p", "t", "-", "5", "-", "h", "i", "g", "h">>, enum |-> "GPT_5_HIGH"],
    [name |-> <<"g", "p", "t", "-", "5", "-", "c", "o", "d", "e", "x">>, enum |-> "GPT_5_CODEX"],
    [name |-> <<"g", "p", "t", "-", "5", ".", "2">>, enum |-> "GPT_5_2_MEDIUM"],
    [name |-> <<"g", "p", "t", "-", "5", "-", "2">>, enum |-> "GPT_5_2_MEDIUM"],
    [name |-> <<"g", "p", "t", "-", "5", ".", "2", "-", "l", "o", "w">>, enum |-> "GPT_5_2_LOW"],
    [name |-> <<"g", "p", "t", "-", "5", "-", "2", "-", "l", "o", "w">>, enum |-> "GPT_5_2_LOW"],
    [name |-> <<"g", "p", "t", "-", "5", ".", "2", "-", "h", "i", "g", "h">>, enum |-> "GPT_5_2_HIGH"],
    [name |-> <<"g", "p", "t", "-", "5", "-", "2", "-", "h", "i", "g", "h">>, enum |-> "GPT_5_2_HIGH"],
    [name |-> <<"g", "p", "t", "-", "5", ".", "2", "-", "x", "h", "i", "g", "h">>, enum |-> "GPT_5_2_XHIGH"],
    [name |-> <<"g", "p", "t", "-", "5", "-", "2", "-", "x", "h", "i", "g", "h">>, enum |-> "GPT_5_2_XHIGH"],
    [name |-> <<"o", "1">>, enum |-> "O1"],
    [name |-> <<"o", "1", "-", "m", "i", "n", "i">>, enum |-> "O1_MINI"],
    [name |-> <<"o", "1", "-", "p", "r", "e", "v", "i", "e", "w">>, enum |-> "O1_PREVIEW"],
    [name |-> <<"o", "3">>, enum |-> "O3"],
    [name |-> <<"o", "3", "-", "m", "i", "n", "i">>, enum |-> "O3_MINI"],
    [name |-> <<"o", "3", "-", "l", "o", "w">>, enum |-> "O3_LOW"],
    [name |-> <<"o", "3", "-", "h", "i", "g", "h">>, enum |-> "O3_HIGH"],
    [name |-> <<"o", "3", "-", "p", "r", "o">>, enum |-> "O3_PRO"],
    [name |-> <<"o", "3", "-", "p", "r", "o", "-", "l", "o", "w">>, enum |-> "O3_PRO_LOW"],
    [name |-> <<"o", "3", "-", "p", "r", "o", "-", "h", "i", "g", "h">>, enum |-> "O3_PRO_HIGH"],
    [name |-> <<"o", "4", "-", "m", "i", "n", "i">>, enum |-> "O4_MINI"],
    [name |-> <<"o", "4", "-", "m", "i", "n", "i", "-", "l", "o", "w">>, enum |-> "O4_MINI_LOW"],
    [name |-> <<"o", "4", "-", "m", "i", "n", "i", "-", "h", "i", "g", "h">>, enum |-> "O4_MINI_HIGH"],
    [name |-> <<"g", "e", "m", "i", "n", "i", "-", "1", ".", "0", "-", "p", "r", "o">>, enum |-> "GEMINI_1_0_PRO"],
    [name |-> <<"g", "e", "m", "i", "n", "i", "-", "1", "-", "0", "-", "p", "r", "o">>, enum |-> "GEMINI_1_0_PRO"],
    [name |-> <<"g", "e", "m", "i", "n", "i", "-", "1", ".", "5", "-", "p", "r", "o">>, enum |-> "GEMINI_1_5_PRO"],
    [name |-> <<"g", "e", "m", "i", "n", "i", "-", "1", "-", "5", "-", "p", "r", "o">>, enum |-> "GEMINI_1_5_PRO"],
    [name |-> <<"g", "e", "m", "i", "n", "i", "-", "2", ".", "0", "-", "f", "l", "a", "s", "h">>, enum |-> "GEMINI_2_0_FLASH"],
    [name |-> <<"g", "e", "m", "i", "n", "i", "-", "2", "-", "0", "-", "f", "l", "a", "s", "h">>, enum |-> "GEMINI_2_0_FLASH"],
    [name |-> <<"g", "e", "m", "i", "n", "i", "-", "2", ".", "5", "-", "p", "r", "o">>, enum |-> "GEMINI_2_5_PRO"],
    [name |-> <<"g", "e", "m", "i", "n", "i", "-", "2", "-", "5", "-", "p", "r", "o">>, enum |-> "GEMINI_2_5_PRO"],
    [name |-> <<"g", "e", "m", "i", "n", "i", "-", "2", ".", "5", "-", "f", "l", "a", "s", "h">>, enum |-> "GEMINI_2_5_FLASH"],
    [name |-> <<"g", "e", "m", "i", "n", "i", "-", "2", "-", "5", "-", "f", "l", "a", "s", "h">>, enum |-> "GEMINI_2_5_FLASH"],
    [name |-> <<"g", "e", "m", "i", "n", "i", "-", "2", ".", "5", "-", "f", "l", "a", "s", "h", "-", "t", "h", "i", "n", "k", "i", "n", "g">>, enum |-> "GEMINI_2_5_FLASH_THINKING"],
    [name |-> <<"g", "e", "m", "i", "n", "i", "-", "2", "-", "5", "-", "f", "l", "a", "s", "h", "-", "t", "h", "i", "n", "k", "i", "n", "g">>, enum |-> "GEMINI_2_5_FLASH_THINKING"],
    [name |-> <<"g", "e", "m", "i", "n", "i", "-", "2", ".", "5", "-", "f", "l", "a", "s", "h", "-", "l", "i", "t", "e">>, enum |-> "GEMINI_2_5_FLASH_LITE"],
    [name |-> <<"g", "e", "m", "i", "n", "i", "-", "2", "-", "5", "-", "f", "l", "a", "s", "h", "-", "l", "i", "t", "e">>, enum |-> "GEMINI_2_5_FLASH_LITE"],
    [name |-> <<"g", "e", "m", "i", "n", "i", "-", "3", ".", "0", "-", "p", "r", "o", "-", "l", "o", "w">>, enum |-> "GEMINI_3_0_PRO_LOW"],
    [name |-> <<"g", "e", "m", "i", "n", "i", "-", "3", "-", "0", "-", "p", "r", "o", "-", "l", "o", "w">>, enum |-> "GEMINI_3_0_PRO_LOW"],
    [name |-> <<"g", "e", "m", "i", "n", "i", "-", "3", ".", "0", "-", "p", "r", "o", "-", "h", "i", "g", "h">>, enum |-> "GEMINI_3_0_PRO_HIGH"],
    [name |-> <<"g", "e", "m", "i", "n", "i", "-", "3", "-", "0", "-", "p", "r", "o", "-", "h", "i", "g", "h">>, enum |-> "GEMINI_3_0_PRO_HIGH"],
    [name |-> <<"d", "e", "e", "p", "s", "e", "e", "k", "-", "v", "3">>, enum |-> "DEEPSEEK_V3"],
    [name |-> <<"d", "e", "e", "p", "s", "e", "e", "k", "-", "v", "3", "-", "2">>, enum |-> "DEEPSEEK_V3_2"],
    [name |-> <<"d", "e", "e", "p", "s", "e", "e", "k", "-", "r", "1">>, enum |-> "DEEPSEEK_R1"],
    [name |-> <<"d", "e", "e", "p", "s", "e", "e", "k", "-", "r", "1", "-", "f", "a", "s", "t">>, enum |-> "DEEPSEEK_R1_FAST"],
    [name |-> <<"d", "e", "e", "p", "s", "e", "e", "k", "-", "r", "1", "-", "s", "l", "o", "w">>, enum |-> "DEEPSEEK_R1_SLOW"],
    [name |-> <<"l", "l", "a", "m", "a", "-", "3", ".", "1", "-", "8", "b">>, enum |-> "LLAMA_3_1_8B_INSTRUCT"],
    [name |-> <<"l", "l", "a", "m", "a", "-", "3", "-", "1", "-", "8", "b">>, enum |-> "LLAMA_3_1_8B_INSTRUCT"],
    [name |-> <<"l", "l", "a", "m", "a", "-", "3", ".", "1", "-", "7", "0", "b">>, enum |-> "LLAMA_3_1_70B_INSTRUCT"],
    [name |-> <<"l", "l", "a", "m", "a", "-", "3", "-", "1", "-", "7", "0", "b">>, enum |-> "LLAMA_3_1_70B_INSTRUCT"],
    [name |-> <<"l", "l", "a", "m", "a", "-", "3", ".", "1", "-", "4", "0", "5", "b">>, enum |-> "LLAMA_3_1_405B_INSTRUCT"],
    [name |-> <<"l", "l", "a", "m", "a", "-", "3", "-", "1", "-", "4", "0", "5", "b">>, enum |-> "LLAMA_3_1_405B_INSTRUCT"],
    [name |-> <<"l", "l", "a", "m", "a", "-", "3", ".", "3", "-", "7", "0", "b">>, enum |-> "LLAMA_3_3_70B_INSTRUCT"],
    [name |-> <<"l", "l", "a", "m", "a", "-", "3", "-", "3", "-", "7", "0", "b">>, enum |-> "LLAMA_3_3_70B_INSTRUCT"],
    [name |-> <<"l", "l", "a", "m", "a", "-", "3", ".", "3", "-", "7", "0", "b", "-", "r", "1">>, enum |-> "LLAMA_3_3_70B_INSTRUCT_R1"],
    [name |-> <<"l", "l", "a", "m", "a", "-", "3", "-", "3", "-", "7", "0", "b", "-", "r", "1">>, enum |-> "LLAMA_3_3_70B_INSTRUCT_R1"],
    [name |-> <<"q", "w", "e", "n", "-", "2", ".", "5", "-", "7", "b">>, enum |-> "QWEN_2_5_7B_INSTRUCT"],
    [name |-> <<"q", "w", "e", "n", "-", "2", "-", "5", "-", "7", "b">>, enum |-> "QWEN_2_5_7B_INSTRUCT"],
    [name |-> <<"q", "w", "e", "n", "-", "2", ".", "5", "-", "3", "2", "b">>, enum |-> "QWEN_2_5_32B_INSTRUCT"],
    [name |-> <<"q", "w", "e", "n", "-", "2", "-", "5", "-", "3", "2", "b">>, enum |-> "QWEN_2_5_32B_INSTRUCT"],
    [name |-> <<"q", "w", "e", "n", "-", "2", ".", "5", "-", "7", "2", "b">>, enum |-> "QWEN_2_5_72B_INSTRUCT"],
    [name |-> <<"q", "w", "e", "n", "-", "2", "-", "5", "-", "7", "2", "b">>, enum |-> "QWEN_2_5_72B_INSTRUCT"],
    [name |-> <<"q", "w", "e", "n", "-", "3", "-", "2", "3", "5", "b">>, enum |-> "QWEN_3_235B_INSTRUCT"],
    [name |-> <<"q", "w", "e", "n", "-", "3", "-", "c", "o", "d", "e", "r", "-", "4", "8", "0", "b">>, enum |-> "QWEN_3_CODER_480B_INSTRUCT"],
    [name |-> <<"g", "r", "o", "k", "-", "2">>, enum |-> "GROK_2"],
    [name |-> <<"g", "r", "o", "k", "-", "3">>, enum |-> "GROK_3"],
    [name |-> <<"g", "r", "o", "k", "-", "3", "-", "m", "i", "n", "i">>, enum |-> "GROK_3_MINI_REASONING"],
    [name |-> <<"g", "r", "o", "k", "-", "c", "o", "d", "e", "-", "f", "a", "s", "t">>, enum |-> "GROK_CODE_FAST"],
    [name |-> <<"m", "i", "s", "t", "r", "a", "l", "-", "7", "b">>, enum |-> "MISTRAL_7B"],
    [name |-> <<"k", "i", "m", "i", "-", "k", "2">>, enum |-> "KIMI_K2"],
    [name |-> <<"k", "i", "m", "i", "-", "k", "2", "-", "t", "h", "i", "n", "k", "i", "n", "g">>, enum |-> "KIMI_K2_THINKING"],
    [name |-> <<"g", "l", "m", "-", "4", ".", "5">>, enum |-> "GLM_4_5"],
    [name |-> <<"g", "l", "m", "-", "4", "-", "5">>, enum |-> "GLM_4_5"],
    [name |-> <<"g", "l", "m", "-", "4", ".", "6">>, enum |-> "GLM_4_6"],
    [name |-> <<"g", "l", "m", "-", "4", "-", "6">>, enum |-> "GLM_4_6"],
    [name |-> <<"m", "i", "n", "i", "m", "a", "x", "-", "m", "2">>, enum |-> "MINIMAX_M2"],
    [name |-> <<"s", "w", "e", "-", "1", ".", "5">>, enum |-> "SWE_1_5"],
    [name |-> <<"s", "w", "e", "-", "1", "-", "5">>, enum |-> "SWE_1_5"],
    [name |-> <<"s", "w", "e", "-", "1", ".", "5", "-", "t", "h", "i", "n", "k", "i", "n", "g">>, enum |-> "SWE_1_5_THINKING"],
    [name |-> <<"s", "w", "e", "-", "1", "-", "5", "-", "t", "h", "i", "n", "k", "i", "n", "g">>, enum |-> "SWE_1_5_THINKING"] >>

\* lines 215-318
ENUM_TO_MODEL_NAME == <<
    [enum |-> "CLAUDE_3_OPUS_20240229", name |-> <<"c", "l", "a", "u", "d", "e", "-", "3", "-", "o", "p", "u", "s">>],
    [enum |-> "CLAUDE_3_SONNET_20240229", name |-> <<"c", "l", "a", "u", "d", "e", "-", "3", "-", "s", "o", "n", "n", "e", "t">>],
    [enum |-> "CLAUDE_3_HAIKU_20240307", name |-> <<"c", "l", "a", "u", "d", "e", "-", "3", "-", "h", "a", "i", "k", "u">>],
    [enum |-> "CLAUDE_3_5_SONNET_20241022", name |-> <<"c", "l", "a", "u", "d", "e", "-", "3", ".", "5", "-", "s", "o", "n", "n", "e", "t">>],
    [enum |-> "CLAUDE_3_5_HAIKU_20241022", name |-> <<"c", "l", "a", "u", "d", "e", "-", "3", ".", "5", "-", "h", "a", "i", "k", "u">>],
    [enum |-> "CLAUDE_3_7_SONNET_20250219", name |-> <<"c", "l", "a", "u", "d", "e", "-", "3", ".", "7", "-", "s", "o", "n", "n", "e", "t">>],
    [enum |-> "CLAUDE_3_7_SONNET_20250219_THINKING", name |-> <<"c", "l", "a", "u", "d", "e", "-", "3", ".", "7", "-", "s", "o", "n", "n", "e", "t", "-", "t", "h", "i", "n", "k", "i", "n", "g">>],
    [enum |-> "CLAUDE_4_OPUS", name |-> <<"c", "l", "a", "u", "d", "e", "-", "4", "-", "o", "p", "u", "s">>],
    [enum |-> "CLAUDE_4_OPUS_THINKING", name |-> <<"c", "l", "a", "u", "d", "e", "-", "4", "-", "o", "p", "u", "s", "-", "t", "h", "i", "n", "k", "i", "n", "g">>],
    [enum |-> "CLAUDE_4_SONNET", name |-> <<"c", "l", "a", "u", "d", "e", "-", "4", "-", "s", "o", "n", "n", "e", "t">>],
    [enum |-> "CLAUDE_4_SONNET_THINKING", name |-> <<"c", "l", "a", "u", "d", "e", "-", "4", "-", "s", "o", "n", "n", "e", "t", "-", "t", "h", "i", "n", "k", "i", "n", "g">>],
    [enum |-> "CLAUDE_4_1_OPUS", name |-> <<"c", "l", "a", "u", "d", "e", "-", "4", ".", "1", "-", "o", "p", "u", "s">>],
    [enum |-> "CLAUDE_4_1_OPUS_THINKING", name |-> <<"c", "l", "a", "u", "d", "e", "-", "4", ".", "1", "-", "o", "p", "u", "s", "-", "t", "h", "i", "n", "k", "i", "n", "g">>],
    [enum |-> "CLAUDE_4_5_SONNET", name |-> <<"c", "l", "a", "u", "d", "e", "-", "4", ".", "5", "-", "s", "o", "n", "n", "e", "t">>],
    [enum |-> "CLAUDE_4_5_SONNET_THINKING", name |-> <<"c", "l", "a", "u", "d", "e", "-", "4", ".", "5", "-", "s", "o", "n", "n", "e", "t", "-", "t", "h", "i", "n", "k", "i", "n", "g">>],
    [enum |-> "CLAUDE_4_5_SONNET_1M", name |-> <<"c", "l", "a", "u", "d", "e", "-", "4", ".", "5", "-", "s", "o", "n", "n", "e", "t", "-", "1", "m">>],
    [enum |-> "CLAUDE_4_5_OPUS", name |-> <<"c", "l", "a", "u", "d", "e", "-", "4", ".", "5", "-", "o", "p", "u", "s">>],
    [enum |-> "CLAUDE_4_5_OPUS_THINKING", name |-> <<"c", "l", "a", "u", "d", "e", "-", "4", ".", "5", "-", "o", "p", "u", "s", "-", "t", "h", "i", "n", "k", "i", "n", "g">>],
    [enum |-> "CLAUDE_CODE", name |-> <<"c", "l", "a", "u", "d", "e", "-", "c", "o", "d", "e">>],
    [enum |-> "GPT_4", name |-> <<"g", "p", "t", "-", "4">>],
    [enum |-> "GPT_4_1106_PREVIEW", name |-> <<"g", "p", "t", "-", "4", "-", "t", "u", "r", "b", "o">>],
    [enum |-> "GPT_4O_2024_08_06", name |-> <<"g", "p", "t", "-", "4", "o">>],
    [enum |-> "GPT_4O_MINI_2024_07_18", name |-> <<"g", "p", "t", "-", "4", "o", "-", "m", "i", "n", "i">>],
    [enum |-> "GPT_4_5", name |-> <<"g", "p", "t", "-", "4", ".", "5">>],
    [enum |-> "GPT_4_1_2025_04_14", name |-> <<"g", "p", "t", "-", "4", ".", "1">>],
    [enum |-> "GPT_4_1_MINI_2025_04_14", name |-> <<"g", "p", "t", "-", "4", ".", "1", "-", "m", "i", "n", "i">>],
    [enum |-> "GPT_4_1_NANO_2025_04_14", name |-> <<"g", "p", "t", "-", "4", ".", "1", "-", "n", "a", "n", "o">>],
    [enum |-> "GPT_5", name |-> <<"g", "p", "t", "-", "5">>],
    [enum |-> "GPT_5_NANO", name |-> <<"g", "p", "t", "-", "5", "-", "n", "a", "n", "o">>],
    [enum |-> "GPT_5_LOW", name |-> <<"g", "p", "t", "-", "5", "-", "l", "o", "w">>],
    [enum |-> "GPT_5_HIGH", name |-> <<"g", "p", "t", "-", "5", "-", "h", "i", "g", "h">>],
    [enum |-> "GPT_5_CODEX", name |-> <<"g", "p", "t", "-", "5", "-", "c", "o", "d", "e", "x">>],
    [enum |-> "GPT_5_2_LOW", name |-> <<"g", "p", "t", "-", "5", ".", "2", "-", "l", "o", "w">>],
    [enum |-> "GPT_5_2_MEDIUM", name |-> <<"g", "p", "t", "-", "5", ".", "2">>],
    [enum |-> "GPT_5_2_HIGH", name |-> <<"g", "p", "t", "-", "5", ".", "2", "-", "h", "i", "g", "h">>],
    [enum |-> "GPT_5_2_XHIGH", name |-> <<"g", "p", "t", "-", "5", ".", "2", "-", "x", "h", "i", "g", "h">>],
    [enum |-> "O1", name |-> <<"o", "1">>],
    [enum |-> "O1_MINI", name |-> <<"o", "1", "-", "m", "i", "n", "i">>],
    [enum |-> "O1_PREVIEW", name |-> <<"o", "1", "-", "p", "r", "e", "v", "i", "e", "w">>],
    [enum |-> "O3", name |-> <<"o", "3">>],
    [enum |-> "O3_MINI", name |-> <<"o", "3", "-", "m", "i", "n", "i">>],
    [enum |-> "O3_LOW", name |-> <<"o", "3", "-", "l", "o", "w">>],
    [enum |-> "O3_HIGH", name |-> <<"o", "3", "-", "h", "i", "g", "h">>],
    [enum |-> "O3_PRO", name |-> <<"o", "3", "-", "p", "r", "o">>],
    [enum |-> "O3_PRO_LOW", name |-> <<"o", "3", "-", "p", "r", "o", "-", "l", "o", "w">>],
    [enum |-> "O3_PRO_HIGH", name |-> <<"o", "3", "-", "p", "r", "o", "-", "h", "i", "g", "h">>],
    [enum |-> "O4_MINI", name |-> <<"o", "4", "-", "m", "i", "n", "i">>],
    [enum |-> "O4_MINI_LOW", name |-> <<"o", "4", "-", "m", "i", "n", "i", "-", "l", "o", "w">>],
    [enum |-> "O4_MINI_HIGH", name |-> <<"o", "4", "-", "m", "i", "n", "i", "-", "h", "i", "g", "h">>],
    [enum |-> "GEMINI_1_0_PRO", name |-> <<"g", "e", "m", "i", "n", "i", "-", "1", ".", "0", "-", "p", "r", "o">>],
    [enum |-> "GEMINI_1_5_PRO", name |-> <<"g", "e", "m", "i", "n", "i", "-", "1", ".", "5", "-", "p", "r", "o">>],
    [enum |-> "GEMINI_2_0_FLASH", name |-> <<"g", "e", "m", "i", "n", "i", "-", "2", ".", "0", "-", "f", "l", "a", "s", "h">>],
    [enum |-> "GEMINI_2_5_PRO", name |-> <<"g", "e", "m", "i", "n", "i", "-", "2", ".", "5", "-", "p", "r", "o">>],
    [enum |-> "GEMINI_2_5_FLASH", name |-> <<"g", "e", "m", "i", "n", "i", "-", "2", ".", "5", "-", "f", "l", "a", "s", "h">>],
    [enum |-> "GEMINI_2_5_FLASH_THINKING", name |-> <<"g", "e", "m", "i", "n", "i", "-", "2", ".", "5", "-", "f", "l", "a", "s", "h", "-", "t", "h", "i", "n", "k", "i", "n", "g">>],
    [enum |-> "GEMINI_2_5_FLASH_LITE", name |-> <<"g", "e", "m", "i", "n", "i", "-", "2", ".", "5", "-", "f", "l", "a", "s", "h", "-", "l", "i", "t", "e">>],
    [enum |-> "GEMINI_3_0_PRO_LOW", name |-> <<"g", "e", "m", "i", "n", "i", "-", "3", ".", "0", "-", "p", "r", "o", "-", "l", "o", "w">>],
    [enum |-> "GEMINI_3_0_PRO_HIGH", name |-> <<"g", "e", "m", "i", "n", "i", "-", "3", ".", "0", "-", "p", "r", "o", "-", "h", "i", "g", "h">>],
    [enum |-> "DEEPSEEK_V3", name |-> <<"d", "e", "e", "p", "s", "e", "e", "k", "-", "v", "3">>],
    [enum |-> "DEEPSEEK_V3_2", name |-> <<"d", "e", "e", "p", "s", "e", "e", "k", "-", "v", "3", "-", "2">>],
    [enum |-> "DEEPSEEK_R1", name |-> <<"d", "e", "e", "p", "s", "e", "e", "k", "-", "r", "1">>],
    [enum |-> "DEEPSEEK_R1_FAST", name |-> <<"d", "e", "e", "p", "s", "e", "e", "k", "-", "r", "1", "-", "f", "a", "s", "t">>],
    [enum |-> "DEEPSEEK_R1_SLOW", name |-> <<"d", "e", "e", "p", "s", "e", "e", "k", "-", "r", "1", "-", "s", "l", "o", "w">>],
    [enum |-> "LLAMA_3_1_8B_INSTRUCT", name |-> <<"l", "l", "a", "m", "a", "-", "3", ".", "1", "-", "8", "b">>],
    [enum |-> "LLAMA_3_1_70B_INSTRUCT", name |-> <<"l", "l", "a", "m", "a", "-", "3", ".", "1", "-", "7", "0", "b">>],
    [enum |-> "LLAMA_3_1_405B_INSTRUCT", name |-> <<"l", "l", "a", "m", "a", "-", "3", ".", "1", "-", "4", "0", "5", "b">>],
    [enum |-> "LLAMA_3_3_70B_INSTRUCT", name |-> <<"l", "l", "a", "m", "a", "-", "3", ".", "3", "-", "7", "0", "b">>],
    [enum |-> "LLAMA_3_3_70B_INSTRUCT_R1", name |-> <<"l", "l", "a", "m", "a", "-", "3", ".", "3", "-", "7", "0", "b", "-", "r", "1">>],
    [enum |-> "QWEN_2_5_7B_INSTRUCT", name |-> <<"q", "w", "e", "n", "-", "2", ".", "5", "-", "7", "b">>],
    [enum |-> "QWEN_2_5_32B_INSTRUCT", name |-> <<"q", "w", "e", "n", "-", "2", ".", "5", "-", "3", "2", "b">>],
    [enum |-> "QWEN_2_5_72B_INSTRUCT", name |-> <<"q", "w", "e", "n", "-", "2", ".", "5", "-", "7", "2", "b">>],
    [enum |-> "QWEN_3_235B_INSTRUCT", name |-> <<"q", "w", "e", "n", "-", "3", "-", "2", "3", "5", "b">>],
    [enum |-> "QWEN_3_CODER_480B_INSTRUCT", name |-> <<"q", "w", "e", "n", "-", "3", "-", "c", "o", "d", "e", "r", "-", "4", "8", "0", "b">>],
    [enum |-> "GROK_2", name |-> <<"g", "r", "o", "k", "-", "2">>],
    [enum |-> "GROK_3", name |-> <<"g", "r", "o", "k", "-", "3">>],
    [enum |-> "GROK_3_MINI_REASONING", name |-> <<"g", "r", "o", "k", "-", "3", "-", "m", "i", "n", "i">>],
    [enum |-> "GROK_CODE_FAST", name |-> <<"g", "r", "o", "k", "-", "c", "o", "d", "e", "-", "f", "a", "s", "t">>],
    [enum |-> "MISTRAL_7B", name |-> <<"m", "i", "s", "t", "r", "a", "l", "-", "7", "b">>],
    [enum |-> "KIMI_K2", name |-> <<"k", "i", "m", "i", "-", "k", "2">>],
    [enum |-> "KIMI_K2_THINKING", name |-> <<"k", "i", "m", "i", "-", "k", "2", "-", "t", "h", "i", "n", "k", "i", "n", "g">>],
    [enum |-> "GLM_4_5", name |-> <<"g", "l", "m", "-", "4", ".", "5">>],
    [enum |-> "GLM_4_6", name |-> <<"g", "l", "m", "-", "4", ".", "6">>],
    [enum |-> "MINIMAX_M2", name |-> <<"m", "i", "n", "i", "m", "a", "x", "-", "m", "2">>],
    [enum |-> "SWE_1_5", name |-> <<"s", "w", "e", "-", "1", ".", "5">>],
    [enum |-> "SWE_1_5_THINKING", name |-> <<"s", "w", "e", "-", "1", ".", "5", "-", "t", "h", "i", "n", "k", "i", "n", "g">>] >>

\* the properties every object literal inherits from Object.prototype, and
\* what reading them gives (none is null or undefined)
ObjectPrototype == <<
    [name |-> <<"c", "o", "n", "s", "t", "r", "u", "c", "t", "o", "r">>, value |-> "function Object"],
    [name |-> <<"_", "_", "p", "r", "o", "t", "o", "_", "_">>, value |-> "Object.prototype"],
    [name |-> <<"t", "o", "S", "t", "r", "i", "n", "g">>, value |-> "function toString"],
    [name |-> <<"v", "a", "l", "u", "e", "O", "f">>, value |-> "function valueOf"],
    [name |-> <<"h", "a", "s", "O", "w", "n", "P", "r", "o", "p", "e", "r", "t", "y">>, value |-> "function hasOwnProperty"] >>

\* table[key] of a JavaScript object literal: an own property, else an
\* inherited one, else undefined
PropertyOf(own, key) ==
    LET at    == {i \in 1..Len(own) : own[i].name = key}
        proto == {i \in 1..Len(ObjectPrototype) : ObjectPrototype[i].name = key}
    IN  IF at # {} THEN own[MaxOf(at)].enum
        ELSE IF proto # {} THEN ObjectPrototype[MinOf(proto)].value
        ELSE Undefined

\* String.prototype.toLowerCase, for characters below \x7F
ToLowerCase(s) ==
    [i \in 1..Len(s) |->
        IF s[i] \in WS THEN s[i]
        ELSE IF Code(s[i]) \in 65..90 THEN Ascii[Code(s[i]) + 1] ELSE s[i]]

\* getDefaultModelEnum, lines 371-373
getDefaultModelEnum == "CLAUDE_3_5_SONNET_20241022"

\* getDefaultModel, lines 363-365
getDefaultModel == <<"c", "l", "a", "u", "d", "e", "-", "3", ".", "5", "-", "s", "o", "n", "n", "e", "t">>

\* mutant: the name is cut at its first "."
modelNameToEnum_cutAtDot(modelName) ==
    LET lower      == Trim(ToLowerCase(modelName))
        dots       == {i \in 1..Len(lower) : lower[i] = "."}
        normalized == IF dots = {} THEN lower ELSE SubSeq(lower, 1, MinOf(dots) - 1)
        found      == PropertyOf(MODEL_NAME_TO_ENUM, normalized)
    IN  IF found = Undefined THEN getDefaultModelEnum ELSE found

\* lines 329-332
modelNameToEnum(modelName) ==
    LET normalized == Trim(ToLowerCase(modelName))
        found      == PropertyOf(MODEL_NAME_TO_ENUM, normalized)
    IN  IF found = Undefined THEN getDefaultModelEnum ELSE found

\* a text with every "." replaced by "-"
Dashed(name) == [i \in 1..Len(name) |-> IF name[i] = "." THEN "-" ELSE name[i]]

\* lines 339-341
enumToModelName(enumValue) ==
    LET at == {i \in 1..Len(ENUM_TO_MODEL_NAME) : ENUM_TO_MODEL_NAME[i].enum = enumValue}
    IN  IF at = {} THEN getDefaultModel ELSE ENUM_TO_MODEL_NAME[MaxOf(at)].name

\* mutant: every name of the name table is listed, aliases included
getCanonicalModels_withAliases ==
    [i \in 1..Len(MODEL_NAME_TO_ENUM) |-> MODEL_NAME_TO_ENUM[i].name]

\* lines 380-382: the values of ENUM_TO_MODEL_NAME, one for each key (of two
\* entries with the same key an object literal keeps the later)
getCanonicalModels ==
    LET kept == SelectSeq([i \in 1..Len(ENUM_TO_MODEL_NAME) |-> i],
                    LAMBDA i : \A j \in (i + 1)..Len(ENUM_TO_MODEL_NAME) :
                                  ENUM_TO_MODEL_NAME[j].enum # ENUM_TO_MODEL_NAME[i].enum)
    IN  [k \in 1..Len(kept) |-> ENUM_TO_MODEL_NAME[kept[k]].name]

\* lines 355-357: the in operator sees own and inherited properties
isModelSupported(modelName) ==
    PropertyOf(MODEL_NAME_TO_ENUM, Trim(ToLowerCase(modelName))) # Undefined

\* the models that have variants, and their variants (README, Supported
\* Models and the configuration example)
VariantCatalog == <<
    [id |-> <<"g", "e", "m", "i", "n", "i", "-", "3", ".", "0", "-", "p", "r", "o">>,
     variants |-> {<<"m", "i", "n", "i", "m", "a", "l">>, <<"l", "o", "w">>, <<"m", "e", "d", "i", "u", "m">>, <<"h", "i", "g", "h">>}],
    [id |-> <<"g", "e", "m", "i", "n", "i", "-", "3", ".", "0", "-", "f", "l", "a", "s", "h">>,
     variants |-> {<<"m", "i", "n", "i", "m", "a", "l">>, <<"l", "o", "w">>, <<"m", "e", "d", "i", "u", "m">>, <<"h", "i", "g", "h">>}],
    [id |-> <<"g", "p", "t", "-", "5", ".", "2">>,
     variants |-> {<<"l", "o", "w">>, <<"m", "e", "d", "i", "u", "m">>, <<"h", "i", "g", "h">>, <<"x", "h", "i", "g", "h">>, <<"p", "r", "i", "o", "r", "i", "t", "y">>}],
    [id |-> <<"g", "p", "t", "-", "5", ".", "1", "-", "c", "o", "d", "e", "x", "-", "m", "a", "x">>,
     variants |-> {<<"l", "o", "w">>, <<"m", "e", "d", "i", "u", "m">>, <<"h", "i", "g", "h">>}] >>

\* no variant
NoVariant == <<>>

\* how a normalized name reads against the catalog: the model it names and
\* the variant its suffix gives; dashAlias says whether the form with "-"
\* for "." is accepted
CatalogMatches(base, dashAlias) ==
    LET Forms(id) == IF dashAlias THEN {id, Dashed(id)} ELSE {id}
    IN  {[modelId |-> VariantCatalog[i].id, variant |-> NoVariant] :
            i \in {k \in 1..Len(VariantCatalog) : base \in Forms(VariantCatalog[k].id)}}
        \cup
        UNION {{[modelId |-> VariantCatalog[i].id, variant |-> v] :
                   v \in {w \in VariantCatalog[i].variants :
                             \E f \in Forms(VariantCatalog[i].id) : base = f \o <<"-">> \o w}} :
               i \in 1..Len(VariantCatalog)}

\* what resolveModel does with its pieces; suffixFirst and dashAlias select
\* the order of precedence and the alias forms
ResolveWith(modelName, variantOverride, suffixFirst, dashAlias) ==
    LET normalized == Trim(ToLowerCase(modelName))
        colons     == {i \in 1..Len(normalized) : normalized[i] = ":"}
        base       == IF colons = {} THEN normalized
                      ELSE SubSeq(normalized, 1, MinOf(colons) - 1)
        afterColon == IF colons = {} THEN NoVariant
                      ELSE SubSeq(normalized, MinOf(colons) + 1, Len(normalized))
        matches    == CatalogMatches(base, dashAlias)
        match      == CHOOSE m \in matches : TRUE
        modelId    == IF matches # {} THEN match.modelId
                      ELSE enumToModelName(modelNameToEnum(base))
        named      == IF afterColon # NoVariant THEN afterColon
                      ELSE IF matches # {} THEN match.variant ELSE NoVariant
        variant    == IF suffixFirst
                      THEN (IF named # NoVariant THEN named ELSE variantOverride)
                      ELSE (IF variantOverride # NoVariant THEN variantOverride ELSE named)
    IN  [modelId |-> modelId, variant |-> variant]

\* mutant: a variant the name encodes wins over the override
resolveModel_suffixFirst(modelName, variantOverride) ==
    ResolveWith(modelName, variantOverride, TRUE, TRUE)

\* mutant: only the canonical form of a base id is recognised
resolveModel_noDashAlias(modelName, variantOverride) ==
    ResolveWith(modelName, variantOverride, FALSE, FALSE)

\* resolveModel(name, variantOverride?): the canonical base id and the
\* variant; not among the sources, written from the specification (4.1) and
\* tests/unit/variant.test.ts
resolveModel(modelName, variantOverride) ==
    ResolveWith(modelName, variantOverride, FALSE, TRUE)

(***************************************************************************)
(* Inputs of the registry, and one name taken through it.                  *)
(***************************************************************************)
\* a name as a caller may write it: in capitals, with blanks around it
Shouted(name) ==
    <<" ">> \o [i \in 1..Len(name) |->
                  IF Code(name[i]) \in 97..122 THEN Ascii[Code(name[i]) - 63]
                  ELSE name[i]]
           \o <<" ", "\n">>

\* names the table does not have
UnknownNames == {
    <<>>,
    <<"g", "p", "t", "-", "9", "9">>,
    <<"c", "l", "a", "u", "d", "e", " ", "3", ".", "5", " ", "s", "o", "n", "n", "e", "t">>,
    <<"g", "e", "m", "i", "n", "i", "-", "3", ".", "0", "-", "p", "r", "o">>,
    <<"g", "e", "m", "i", "n", "i", "-", "3", ".", "0", "-", "p", "r", "o", ":", "h", "i", "g", "h">>,
    <<"c", "o", "n", "s", "t", "r", "u", "c", "t", "o", "r">>,
    <<"_", "_", "p", "r", "o", "t", "o", "_", "_">>,
    <<"t", "o", "S", "t", "r", "i", "n", "g">> }

ModelNames ==
    {MODEL_NAME_TO_ENUM[i].name : i \in 1..Len(MODEL_NAME_TO_ENUM)}
    \cup {Shouted(MODEL_NAME_TO_ENUM[i].name) : i \in 1..Len(MODEL_NAME_TO_ENUM)}
    \cup UnknownNames

\* names given to resolveModel: every catalog id, plain and with a variant,
\* colon-delimited or as a suffix, in both alias forms
ResolveNames ==
    UNION {LET c  == VariantCatalog[i]
               vs == c.variants
           IN  {c.id, Dashed(c.id), Shouted(c.id)}
               \cup {c.id \o <<":">> \o v : v \in vs}
               \cup {c.id \o <<"-">> \o v : v \in vs}
               \cup {Dashed(c.id) \o <<"-">> \o v : v \in vs}
               \cup {Dashed(c.id) \o <<":">> \o v : v \in vs} :
           i \in 1..Len(VariantCatalog)}
    \cup UnknownNames
    \cup {<<"c", "l", "a", "u", "d", "e", "-", "4", "-", "5", "-", "s", "o", "n", "n", "e", "t">>, <<"g", "p", "t", "-", "4", "o">>, <<"s", "w", "e", "-", "1", ".", "5", ":", "f", "a", "s", "t">>}

\* the variantOverride argument: absent, or one of these
Overrides == {NoVariant, <<"l", "o", "w">>, <<"h", "i", "g", "h">>}

RegIdle == [op |-> "none", modelName |-> <<>>, variantOverride |-> NoVariant,
            enum |-> Undefined, modelId |-> <<>>, variant |-> NoVariant]

\* a caller resolves a model name
Reg_resolve(r, modelName, variantOverride) ==
    LET resolved == resolveModel(modelName, variantOverride)
    IN  [r EXCEPT !.op = "resolveModel", !.modelName = modelName,
                  !.variantOverride = variantOverride,
                  !.modelId = resolved.modelId, !.variant = resolved.variant]

\* grpc-client.ts lines 228 and 319: the model of a request is looked up
Reg_lookup(r, modelName) ==
    [r EXCEPT !.op = "modelNameToEnum", !.modelName = modelName,
              !.enum = modelNameToEnum(modelName)]

(***************************************************************************)
(* Inputs of encodeString, and one input taken through it twice.           *)
(***************************************************************************)
\* field numbers run from 1 to this
MaxFieldNum == 15

TextAccent == <<"c", "a", "f", "eacute">>

TextPrice == <<"euro", "5", " ", "eacute">>

\* 141 characters: the length needs a two-byte varint
TextVeryLong == TextLong \o TextLong \o TextLong

EncStrings ==
    {<<>>, TextHi, TextLong, TextVeryLong, TextAccent, TextPrice, ApiKey, Version}

EncIdle == [stage |-> 0, fieldNum |-> 0, str |-> <<>>, bytes |-> <<>>, again |-> <<>>]

\* encodeString is called
Enc_first(e, fieldNum, str) ==
    [e EXCEPT !.stage = 1, !.fieldNum = fieldNum, !.str = str,
              !.bytes = encodeString(fieldNum, str)]

\* encodeString is called with the same arguments once more
Enc_again(e) ==
    [e EXCEPT !.stage = 2, !.again = encodeString(e.fieldNum, e.str)]

(***************************************************************************)
(* The request handler of the proxy server (plugin.ts, lines 598-690).     *)
(* A request is its path, the parsed body (stream, tools, messages) and    *)
(* what the environment answers while it is handled.                       *)
(***************************************************************************)
\* a message of the body: its role and the number of its tool_calls (-1
\* when tool_calls is absent or no array)
ReqMsg(role, toolCalls) == [role |-> role, tool_calls |-> toolCalls]

\* lines 636-641; tools is the length of the tools array, -1 when the field
\* is absent or no array
hasToolsField(body) == body.tools > 0

\* lines 642-646; messages?.some(...) of a body without messages is undefined
hasToolMessages(body) ==
    /\ body.messages.present
    /\ \E i \in 1..Len(body.messages.list) :
          \/ body.messages.list[i].role = "tool"
          \/ /\ body.messages.list[i].role = "assistant"
             /\ body.messages.list[i].tool_calls > 0

\* mutant: only the tools field sends a request to the planner
ChatRoute_toolsOnly(body) ==
    IF hasToolsField(body)
    THEN (IF body.stream THEN "handleToolPlanningStream" ELSE "handleToolPlanning")
    ELSE (IF body.stream THEN "createStreamingResponse" ELSE "createNonStreamingResponse")

\* lines 648-682: which function answers a chat request
ChatRoute(body) ==
    IF hasToolsField(body) \/ hasToolMessages(body)
    THEN (IF body.stream THEN "handleToolPlanningStream" ELSE "handleToolPlanning")
    ELSE (IF body.stream THEN "createStreamingResponse" ELSE "createNonStreamingResponse")

\* lines 598-690: the handler; the answer is the function the request is
\* handed to, or the status of the response the handler builds itself
Handler(req) ==
    IF req.path = "/health" THEN "200 health"
    ELSE IF req.path \in {"/v1/models", "/models"} THEN "200 models"
    ELSE IF req.path \in {"/v1/chat/completions", "/chat/completions"}
         THEN IF ~req.windsurfRunning THEN "503"
              ELSE IF ~req.credentials THEN "500"
              ELSE ChatRoute(req.body)
    ELSE "404"

\* the functions of the Tool-Call Planner and of the Chat Bridge
PlannerRoutes == {"handleToolPlanningStream", "handleToolPlanning"}

BridgeRoutes == {"createStreamingResponse", "createNonStreamingResponse"}

\* request bodies: req.json() of a body that is no JSON is {}
Paths == {"/health", "/v1/models", "/v1/chat/completions", "/chat/completions", "/v2/other"}

RoleLists == {
    <<>>,
    <<ReqMsg("user", -1)>>,
    <<ReqMsg("system", -1), ReqMsg("user", -1), ReqMsg("assistant", -1)>>,
    <<ReqMsg("user", -1), ReqMsg("assistant", 0)>>,
    <<ReqMsg("user", -1), ReqMsg("assistant", 1), ReqMsg("tool", -1)>>,
    <<ReqMsg("user", -1), ReqMsg("tool", -1)>>,
    <<ReqMsg("user", 1)>> }

MessageRoles ==
    {[present |-> FALSE, list |-> <<>>]}
    \cup {[present |-> TRUE, list |-> l] : l \in RoleLists}

\* at most this many tool definitions in a request
MaxTools == 2

Bodies ==
    [stream : BOOLEAN, tools : -1..MaxTools, messages : MessageRoles]

Requests ==
    [path : Paths, windsurfRunning : BOOLEAN, credentials : BOOLEAN, body : Bodies]

HttpIdle == [stage |-> 0, req |-> CHOOSE r \in Requests : TRUE, answer |-> "none"]

\* the server hands a request to the handler
Http_handle(h, req) == [h EXCEPT !.stage = 1, !.req = req, !.answer = Handler(req)]

(***************************************************************************)
(* ensureWindsurfProxyServer and the plugin factory (plugin.ts, lines      *)
(* 585-786).  A base URL http://127.0.0.1:<port>/v1 is written by its      *)
(* port; 0 stands for the empty string.  Each plugin load is one call; a   *)
(* call runs from one await to the next in one step, and the answer to a   *)
(* health check is settled before the call resumes with it.                *)
(***************************************************************************)
\* line 565
WINDSURF_PROXY_DEFAULT_PORT == 42100

\* constants.ts line 178
PLUGIN_ID == "windsurf"

\* at most this many plugin loads in the process
MaxLoads == 3

Loads == 1..MaxLoads

\* lines 788-792: WindsurfPlugin and CodeiumPlugin, loaded in turn
ProviderIdOf(load) == IF load % 2 = 1 THEN PLUGIN_ID ELSE "codeium"

\* what holds port 42100 outside this process: nothing, the proxy of another
\* process, a program that does not answer /health, or nothing while binding
\* the port is refused (an error other than EADDRINUSE)
Occupants == {"free", "proxy", "foreign", "denied"}

\* the port Bun.serve gives for port 0: one no listener has
RandomPort(servers) == 49152 + Len(servers)

\* a call: where it stands, whether its last health check was answered, the
\* URL it returned, the port of the server it started, and the URL that had
\* been returned first when it began
CallIdle == [pc |-> "idle", ok |-> FALSE, url |-> 0, started |-> 0, prior |-> 0]

\* options of the output of chat.params: absent, or baseURL and apiKey
\* (0 and "" when not set)
NoOptions == [present |-> FALSE, baseURL |-> 0, apiKey |-> ""]

HookIdle == [load |-> 0, providerID |-> "", before |-> NoOptions, after |-> NoOptions]

\* g[key] is unset until the first call marks it; first is the base URL the
\* first call to return has returned
SrvIdle(bun, occupant) ==
    [ bun |-> bun, occupant |-> occupant,
      g |-> [marked |-> FALSE, baseURL |-> 0],
      servers |-> <<>>, first |-> 0,
      calls |-> [i \in Loads |-> CallIdle],
      hook |-> HookIdle ]

\* the call returns baseURL
Returned(s, i, baseURL, started) ==
    [s EXCEPT !.calls[i].pc = "returned", !.calls[i].url = baseURL,
              !.calls[i].started = started,
              !.first = IF @ = 0 THEN baseURL ELSE @]

\* GET /health on port 42100 answers 200: the proxy of another process, or a
\* server of this process (lines 602-608)
HealthOk(s) ==
    \/ s.occupant = "proxy"
    \/ \E k \in 1..Len(s.servers) : s.servers[k] = WINDSURF_PROXY_DEFAULT_PORT

\* Bun.serve on port 42100 throws EADDRINUSE
DefaultPortInUse(s) ==
    \/ s.occupant \in {"proxy", "foreign"}
    \/ \E k \in 1..Len(s.servers) : s.servers[k] = WINDSURF_PROXY_DEFAULT_PORT

\* lines 585-596 and 692-696: up to the first await
Ensure_start(s, i) ==
    LET t == [s EXCEPT !.calls[i].prior = s.first]
    IN  IF s.g.marked /\ s.g.baseURL # 0
        THEN Returned(t, i, s.g.baseURL, 0)
        ELSE IF ~s.bun
             THEN [t EXCEPT !.g = [marked |-> TRUE, baseURL |-> 0],
                            !.calls[i].pc = "thrown"]
             ELSE [t EXCEPT !.g = [marked |-> TRUE, baseURL |-> 0],
                            !.calls[i].pc = "check1"]

\* the fetch of a health check is answered or refused (lines 696 and 729)
Health_settle(s, i) ==
    [s EXCEPT !.calls[i].ok = HealthOk(s),
              !.calls[i].pc = IF @ = "check1" THEN "after1" ELSE "after2"]

\* mutant: a port that is in use sends the call to a random port at once
Ensure_afterHealth1_noSecondCheck(s, i) ==
    IF s.calls[i].ok
    THEN Returned([s EXCEPT !.g.baseURL = WINDSURF_PROXY_DEFAULT_PORT],
                  i, WINDSURF_PROXY_DEFAULT_PORT, 0)
    ELSE IF DefaultPortInUse(s)
         THEN Returned([s EXCEPT !.servers = Append(@, RandomPort(s.servers)),
                                 !.g.baseURL = RandomPort(s.servers)],
                       i, RandomPort(s.servers), RandomPort(s.servers))
    ELSE IF s.occupant = "denied"
         THEN [s EXCEPT !.calls[i].pc = "thrown"]
    ELSE Returned([s EXCEPT !.servers = Append(@, WINDSURF_PROXY_DEFAULT_PORT),
                            !.g.baseURL = WINDSURF_PROXY_DEFAULT_PORT],
                  i, WINDSURF_PROXY_DEFAULT_PORT, WINDSURF_PROXY_DEFAULT_PORT)

\* lines 697-727: the call resumes with the first answer; unless it was
\* 200, the server is started on the default port; EADDRINUSE leads to the
\* second health check, any other error is thrown
Ensure_afterHealth1(s, i) ==
    IF s.calls[i].ok
    THEN Returned([s EXCEPT !.g.baseURL = WINDSURF_PROXY_DEFAULT_PORT],
                  i, WINDSURF_PROXY_DEFAULT_PORT, 0)
    ELSE IF DefaultPortInUse(s)
         THEN [s EXCEPT !.calls[i].pc = "check2"]
    ELSE IF s.occupant = "denied"
         THEN [s EXCEPT !.calls[i].pc = "thrown"]
    ELSE Returned([s EXCEPT !.servers = Append(@, WINDSURF_PROXY_DEFAULT_PORT),
                            !.g.baseURL = WINDSURF_PROXY_DEFAULT_PORT],
                  i, WINDSURF_PROXY_DEFAULT_PORT, WINDSURF_PROXY_DEFAULT_PORT)

\* lines 730-742: the call resumes with the second answer
Ensure_afterHealth2(s, i) ==
    IF s.calls[i].ok
    THEN Returned([s EXCEPT !.g.baseURL = WINDSURF_PROXY_DEFAULT_PORT],
                  i, WINDSURF_PROXY_DEFAULT_PORT, 0)
    ELSE Returned([s EXCEPT !.servers = Append(@, RandomPort(s.servers)),
                            !.g.baseURL = RandomPort(s.servers)],
                  i, RandomPort(s.servers), RandomPort(s.servers))
\* mutant: the hook does not look at the provider of the model
ChatParams_anyProvider(s, i, providerID, options) ==
    [s EXCEPT !.hook =
        [ load |-> i, providerID |-> providerID, before |-> options,
          after |-> [ present |-> TRUE,
                      baseURL |-> s.calls[i].url,
                      apiKey  |-> IF options.apiKey = ""
                                  THEN "windsurf-local"
                                  ELSE options.apiKey ] ]]

\* lines 775-784: the chat.params hook of the plugin load i; providerID is
\* input.model?.providerID, output.options is changed in place
ChatParams(s, i, providerID, options) ==
    [s EXCEPT !.hook =
        [ load |-> i, providerID |-> providerID, before |-> options,
          after |-> IF providerID # ProviderIdOf(i) THEN options
                    ELSE [ present |-> TRUE,
                           baseURL |-> s.calls[i].url,
                           apiKey  |-> IF options.apiKey = ""
                                       THEN "windsurf-local"
                                       ELSE options.apiKey ] ]]

\* input.model?.providerID, "undefined" when input has no model
ProviderIDs == {PLUGIN_ID, "codeium", "openai", "undefined"}

\* output.options before the hook
OptionsBefore == {
    NoOptions,
    [present |-> TRUE, baseURL |-> 0, apiKey |-> ""],
    [present |-> TRUE, baseURL |-> 8080, apiKey |-> "sk-user"] }

(***************************************************************************)
(* Credential discovery (getCSRFToken, getPort, getApiKey,                 *)
(* getWindsurfVersion, getCredentials, isWindsurfRunning) and the chat     *)
(* requests of the proxy handler that use it.  The provider is what the    *)
(* functions read: the process listing of the language server (null when   *)
(* the listing command fails, else the arguments it shows), the LISTEN     *)
(* line of lsof, and the apiKey of ~/.codeium/config.json.  "" and 0 stand *)
(* for an argument, line or key that is not there.                         *)
(***************************************************************************)
\* at most this many chat requests reach the proxy
MaxRequests == 2

\* the provider changes at most this many times
MaxChanges == 2

Tokens == {"", "aaaa-1111", "bbbb-2222"}
ExtPorts == {0, 42000, 42010}
ListenPorts == {0, 42020}
ApiKeys == {"", "key-1", "key-2"}
Versions == {"", "1.48.2"}

Providers ==
    [ listed : BOOLEAN, csrfToken : Tokens, extPort : ExtPorts,
      listen : ListenPorts, apiKey : ApiKeys, version : Versions ]

\* Windsurf running and logged in
ProviderAtStart ==
    [ listed |-> TRUE, csrfToken |-> "aaaa-1111", extPort |-> 42000,
      listen |-> 42020, apiKey |-> "key-1", version |-> "1.48.2" ]

\* the result of a function that may throw a WindsurfError
Returns(value) == [thrown |-> "", value |-> value]
Throws(code, like) == [thrown |-> code, value |-> like]

getCSRFToken(p) ==
    IF ~p.listed THEN Throws("NOT_RUNNING", "")
    ELSE IF p.csrfToken # "" THEN Returns(p.csrfToken)
    ELSE Throws("CSRF_MISSING", "")

\* the gRPC port is extension_server_port + 2; without the argument, the
\* port of the LISTEN line of lsof
getPort(p) ==
    IF ~p.listed THEN Throws("NOT_RUNNING", 0)
    ELSE IF p.extPort # 0 THEN Returns(p.extPort + 2)
    ELSE IF p.listen # 0 THEN Returns(p.listen)
    ELSE Throws("NOT_RUNNING", 0)

getApiKey(p) ==
    IF p.apiKey # "" THEN Returns(p.apiKey)
    ELSE Throws("API_KEY_MISSING", "")

DefaultVersion == "1.13.104"

getWindsurfVersion(p) ==
    IF p.listed /\ p.version # "" THEN p.version ELSE DefaultVersion

NoCredentials == [csrfToken |-> "", port |-> 0, apiKey |-> "", version |-> ""]

\* the four reads in the order of the object literal; the first that throws
\* ends the call
getCredentials(p) ==
    IF getCSRFToken(p).thrown # "" THEN Throws(getCSRFToken(p).thrown, NoCredentials)
    ELSE IF getPort(p).thrown # "" THEN Throws(getPort(p).thrown, NoCredentials)
    ELSE IF getApiKey(p).thrown # "" THEN Throws(getApiKey(p).thrown, NoCredentials)
    ELSE Returns([ csrfToken |-> getCSRFToken(p).value,
                   port |-> getPort(p).value,
                   apiKey |-> getApiKey(p).value,
                   version |-> getWindsurfVersion(p) ])

isWindsurfRunning(p) ==
    getCSRFToken(p).thrown = "" /\ getPort(p).thrown = ""

\* a chat request: where its handler stands, the credentials it holds, the
\* status it answered (0: none yet), and the states in which the provider
\* has been since the request arrived and until getCredentials returned
ChatRequests == 1..MaxRequests

ChatRequestIdle == [pc |-> "idle", credentials |-> NoCredentials, status |-> 0, seen |-> {}]

\* provider, the number of times it has changed, the requests, and the
\* upstream calls made: the request of each and the port, token, key and
\* version it was made with
CredIdle ==
    [ provider |-> ProviderAtStart, changes |-> 0,
      reqs |-> [r \in ChatRequests |-> ChatRequestIdle],
      calls |-> <<>> ]

\* the handler runs without an await from the arrival of the request to the
\* return of getCredentials: no other request is handled in between
InHandlerSync(s) == \E r \in ChatRequests : s.reqs[r].pc \in {"arrived", "running"}

Chat_arrive(s, r) ==
    [s EXCEPT !.reqs[r].pc = "arrived", !.reqs[r].seen = {s.provider}]

\* 503 when Windsurf is not running
Chat_checkRunning(s, r) ==
    IF isWindsurfRunning(s.provider)
    THEN [s EXCEPT !.reqs[r].pc = "running"]
    ELSE [s EXCEPT !.reqs[r].pc = "answered", !.reqs[r].status = 503]

\* getCredentials with credentials kept from the first request that read
\* them
Chat_getCredentials_kept(s, r) ==
    LET res == getCredentials(s.provider)
        had == {q \in ChatRequests : s.reqs[q].pc \in {"ready", "called"}}
    IN  IF had # {}
        THEN [s EXCEPT !.reqs[r].pc = "ready",
                       !.reqs[r].credentials =
                           s.reqs[CHOOSE q \in had : TRUE].credentials]
        ELSE IF res.thrown # ""
        THEN [s EXCEPT !.reqs[r].pc = "answered", !.reqs[r].status = 500]
        ELSE [s EXCEPT !.reqs[r].pc = "ready", !.reqs[r].credentials = res.value]

\* const credentials = getCredentials(), then the await of req.json(); a
\* throw is answered with 500 by the catch
Chat_getCredentials(s, r) ==
    LET res == getCredentials(s.provider)
    IN  IF res.thrown # ""
        THEN [s EXCEPT !.reqs[r].pc = "answered", !.reqs[r].status = 500]
        ELSE [s EXCEPT !.reqs[r].pc = "ready", !.reqs[r].credentials = res.value]

\* the upstream call of the request, by streamChatGenerator: the session
\* connects to localhost:port, the headers carry the token and the body the
\* key and the version
Chat_upstream(s, r) ==
    [s EXCEPT !.reqs[r].pc = "called", !.reqs[r].status = 200,
              !.calls = Append(@, [ req |-> r,
                                    port |-> s.reqs[r].credentials.port,
                                    csrfToken |-> s.reqs[r].credentials.csrfToken,
                                    apiKey |-> s.reqs[r].credentials.apiKey,
                                    version |-> s.reqs[r].credentials.version ])]

\* the provider changes in one respect: Windsurf starts, stops or restarts
\* with other arguments, or the user logs in or out
OneChange(p) ==
    {q \in Providers : Cardinality({f \in DOMAIN p : p[f] # q[f]}) = 1}

Provider_change(s, q) ==
    [s EXCEPT !.provider = q, !.changes = @ + 1,
              !.reqs = [r \in ChatRequests |->
                          IF s.reqs[r].pc \in {"arrived", "running"}
                          THEN [s.reqs[r] EXCEPT !.seen = @ \cup {q}]
                          ELSE s.reqs[r]]]

(***************************************************************************)
(* encodeVarint on values of any size.  The code computes on a BigInt; an  *)
(* integer v is kept here as hi and lo with v = hi * 2^28 + lo and         *)
(* lo < 2^28, so that values of 2^32 and above can be written.             *)
(***************************************************************************)
Big(hi, lo) == [hi |-> hi, lo |-> lo]

\* v > 127n
BigAbove127(v) == v.hi > 0 \/ v.lo > 127

\* Number(v & 0x7fn)
BigLow7(v) == v.lo % 128

\* v >> 7n
BigShift7(v) == Big(v.hi \div 128, (v.hi % 128) * (2^21) + v.lo \div 128)

\* mutant: the value goes through 32-bit arithmetic (value >>> 0)
RECURSIVE encodeVarintBig_int32(_)
encodeVarintBig_int32(v) ==
    LET w == Big(v.hi % 16, v.lo)
    IN  IF BigAbove127(w)
        THEN <<BigLow7(w) + 128>> \o encodeVarintBig_int32(BigShift7(w))
        ELSE <<w.lo>>

\* lines 38-47
RECURSIVE encodeVarintBig(_)
encodeVarintBig(v) ==
    IF BigAbove127(v)
    THEN <<BigLow7(v) + 128>> \o encodeVarintBig(BigShift7(v))
    ELSE <<v.lo>>

\* the values encoded: around the powers of 128, around 2^28 and 2^32, a
\* Date.now() of November 2025 (6565 * 2^28 + 40031360), and up to 2^53 - 1
VarintHighs == {0, 1, 15, 16, 17, 127, 128, 6565, 2^25 - 1}

VarintLows == {0, 1, 127, 128, 129, 300, 16383, 16384, 2^21 - 1, 2^21, 40031360,
               2^28 - 1}

VarintValues == {Big(hi, lo) : hi \in VarintHighs, lo \in VarintLows}

\* one value and its encoding
VarintIdle == [stage |-> 0, value |-> Big(0, 0), bytes |-> <<>>]

Varint_encode(s, v) ==
    [s EXCEPT !.stage = 1, !.value = v, !.bytes = encodeVarintBig(v)]

(***************************************************************************)
(* State.                                                                  *)
(*   sess   the http2 session: idle, connecting, open, failed              *)
(*   strm   the request stream: idle, open, trailed, ended, error          *)
(*   timer  the setTimeout of streamChat: off, armed, fired                *)
(*   recv   the data chunks the stream has delivered, in arrival order     *)
(*   trl    the trailers the stream has delivered (at most one)            *)
(*   sc     the streamChat call                                            *)
(*   gens   the streamChatGenerator calls, by consumer                     *)
(*   sse    the stream of createStreamingResponse (consumer of gens.sse)   *)
(*   json   the result of createNonStreamingResponse (consumer gens.json)  *)
(*   plan   the tool-planning request (consumer of gens.plan)               *)
(*   norm   one input of normalizeToolArguments and its results             *)
(*   wire   the clock, the UUIDs drawn and the wire requests built          *)
(*   enc    one input of encodeString and its results                      *)
(*   reg    one model name and what the registry makes of it               *)
(*   http   one request to the proxy and what answers it                   *)
(*   srv    the proxy server, the plugin loads and the hook                *)
(*   cred   credential provider, chat requests and their upstream calls    *)
(*   vint   one value of encodeVarint and its bytes                        *)
(* A push call and a pull call, or two responses, are driven by the same   *)
(* sequence of transport events; each has its own session, and             *)
(* client.close() is graceful: it lets the open stream run to its end.     *)
(***************************************************************************)
VARIABLES sess, strm, timer, recv, trl, sc, gens, sse, json, plan, norm, wire, enc, reg, http, srv, cred, vint

vars == <<sess, strm, timer, recv, trl, sc, gens, sse, json, plan, norm, wire, enc, reg, http, srv, cred, vint>>

\* the texts extracted from the chunks received, empty ones dropped
Extracted == SelectSeq([i \in 1..Len(recv) |-> extractTextFromChunk(recv[i])],
                       LAMBDA t : t # <<>>)

Last(q) == q[Len(q)]

\* nothing has been called yet; ids names the generators the run will use
BridgeIdle(ids) ==
    /\ sess = "idle"
    /\ strm = "idle"
    /\ timer = "off"
    /\ recv = <<>>
    /\ trl = <<>>
    /\ sc = ChatIdle
    /\ gens = [i \in ids |-> GenIdle]
    /\ sse = SseIdle
    /\ json = JsonIdle

InitWith(ids) ==
    /\ BridgeIdle(ids)
    /\ plan = PlanIdle
    /\ norm = NormIdle
    /\ wire = WireIdle
    /\ enc = EncIdle
    /\ reg = RegIdle
    /\ http = HttpIdle
    /\ srv = SrvIdle(TRUE, "free")
    /\ cred = CredIdle
    /\ vint = VarintIdle

\* one push call and one pull call with a free consumer
Init == InitWith({"pull"})

\* a streamed and a non-streamed response to the same request
InitResp == InitWith({"sse", "json"})

\* streamChat(...) is called and the generator's first next() runs its body
StartCall ==
    /\ sess = "idle"
    /\ sess' = "connecting"
    /\ strm' = "open"
    /\ timer' = "armed"
    /\ sc' = SC_start(sc)
    /\ gens' = [i \in DOMAIN gens |-> Gen_start(gens[i])]
    /\ UNCHANGED <<recv, trl, sse, json, plan, norm, wire, enc, reg, http, srv, cred, vint>>

\* createStreamingResponse and createNonStreamingResponse reach their for await
StartResponses ==
    /\ sess = "idle"
    /\ sess' = "connecting"
    /\ strm' = "open"
    /\ gens' = [i \in DOMAIN gens |-> Gen_start(gens[i])]
    /\ UNCHANGED <<timer, recv, trl, sc, sse, json, plan, norm, wire, enc, reg, http, srv, cred, vint>>

\* 'connect' on the session
Connect ==
    /\ sess = "connecting"
    /\ strm = "open"
    /\ sess' = "open"
    /\ sc' = IF sc.started THEN SC_onConnect(sc) ELSE sc
    /\ UNCHANGED <<strm, timer, recv, trl, gens, sse, json, plan, norm, wire, enc, reg, http, srv, cred, vint>>

\* 'data' on the stream
Data(chunk) ==
    /\ sess = "open"
    /\ strm = "open"
    /\ Len(recv) < MaxChunks
    /\ recv' = Append(recv, chunk)
    /\ sc' = IF sc.req THEN SC_onData(sc, chunk) ELSE sc
    /\ gens' = [i \in DOMAIN gens |-> Gen_onData(gens[i], chunk)]
    /\ UNCHANGED <<sess, strm, timer, trl, sse, json, plan, norm, wire, enc, reg, http, srv, cred, vint>>

\* 'trailers' on the stream; 'end' is what follows
Trailers(trailers) ==
    /\ sess = "open"
    /\ strm = "open"
    /\ strm' = "trailed"
    /\ trl' = <<trailers>>
    /\ sc' = IF sc.req THEN SC_onTrailers(sc, trailers) ELSE sc
    /\ gens' = [i \in DOMAIN gens |-> Gen_onTrailers(gens[i], trailers)]
    /\ UNCHANGED <<sess, timer, recv, sse, json, plan, norm, wire, enc, reg, http, srv, cred, vint>>

\* 'end' on the stream, with or without trailers before it
End ==
    /\ sess = "open"
    /\ strm \in {"open", "trailed"}
    /\ strm' = "ended"
    /\ sc' = IF sc.req THEN SC_onEnd(sc) ELSE sc
    /\ gens' = [i \in DOMAIN gens |-> Gen_onEnd(gens[i])]
    /\ UNCHANGED <<sess, timer, recv, trl, sse, json, plan, norm, wire, enc, reg, http, srv, cred, vint>>

\* 'error' on the stream: a reset of the stream, or the stream destroyed with
\* its failing session (the generator's stream exists before the session
\* connects, streamChat's does not).  Node destroys the streams of a failing
\* session with it; which 'error' event comes first, the stream's or the
\* session's, and what runs between the two, is left open.
StreamError(err) ==
    /\ strm = "open"
    /\ sess \in {"connecting", "open", "failed"}
    /\ strm' = "error"
    /\ sc' = IF sc.req THEN SC_onReqError(sc, err) ELSE sc
    /\ gens' = [i \in DOMAIN gens |-> Gen_onReqError(gens[i], err)]
    /\ UNCHANGED <<sess, timer, recv, trl, sse, json, plan, norm, wire, enc, reg, http, srv, cred, vint>>

\* 'error' on the session: the connection is refused or breaks
SessionError(err) ==
    /\ sess \in {"connecting", "open"}
    /\ strm \in {"open", "error"}
    /\ sess' = "failed"
    /\ sc' = IF sc.started THEN SC_onClientError(sc, err) ELSE sc
    /\ gens' = [i \in DOMAIN gens |-> Gen_onClientError(gens[i], err)]
    /\ UNCHANGED <<strm, timer, recv, trl, sse, json, plan, norm, wire, enc, reg, http, srv, cred, vint>>

\* 120 seconds have passed since streamChat was called
TimerFire ==
    /\ timer = "armed"
    /\ timer' = "fired"
    /\ sc' = SC_onTimeout(sc)
    /\ UNCHANGED <<sess, strm, recv, trl, gens, sse, json, plan, norm, wire, enc, reg, http, srv, cred, vint>>

\* the generator continues after its await
GenResume(i) ==
    /\ gens[i].pc = "woken"
    /\ gens' = [gens EXCEPT ![i] = Gen_resume(@)]
    /\ UNCHANGED <<sess, strm, timer, recv, trl, sc, sse, json, plan, norm, wire, enc, reg, http, srv, cred, vint>>

\* the consumer asks for the next fragment
GenNext(i) ==
    /\ gens[i].pc = "yielded"
    /\ gens' = [gens EXCEPT ![i] = Gen_next(@)]
    /\ UNCHANGED <<sess, strm, timer, recv, trl, sc, sse, json, plan, norm, wire, enc, reg, http, srv, cred, vint>>

\* the consumer leaves its loop before the generator has finished
GenAbandon(i) ==
    /\ gens[i].pc = "yielded"
    /\ gens' = [gens EXCEPT ![i] = Gen_return(@)]
    /\ UNCHANGED <<sess, strm, timer, recv, trl, sc, sse, json, plan, norm, wire, enc, reg, http, srv, cred, vint>>

\* createStreamingResponse: one turn of the for await loop
SseChunk ==
    /\ gens["sse"].pc = "yielded"
    /\ sse' = Sse_onChunk(sse, Last(gens["sse"].yielded))
    /\ gens' = [gens EXCEPT !["sse"] = Gen_next(@)]
    /\ UNCHANGED <<sess, strm, timer, recv, trl, sc, json, plan, norm, wire, enc, reg, http, srv, cred, vint>>

SseReturn ==
    /\ gens["sse"].pc = "returned"
    /\ ~sse.closed
    /\ sse' = Sse_onReturn(sse)
    /\ UNCHANGED <<sess, strm, timer, recv, trl, sc, gens, json, plan, norm, wire, enc, reg, http, srv, cred, vint>>

SseThrow ==
    /\ gens["sse"].pc = "thrown"
    /\ ~sse.closed
    /\ sse' = Sse_onThrow(sse, gens["sse"].raised)
    /\ UNCHANGED <<sess, strm, timer, recv, trl, sc, gens, json, plan, norm, wire, enc, reg, http, srv, cred, vint>>

\* createNonStreamingResponse: one turn of the for await loop
JsonChunk ==
    /\ gens["json"].pc = "yielded"
    /\ json' = Json_onChunk(json, Last(gens["json"].yielded))
    /\ gens' = [gens EXCEPT !["json"] = Gen_next(@)]
    /\ UNCHANGED <<sess, strm, timer, recv, trl, sc, sse, plan, norm, wire, enc, reg, http, srv, cred, vint>>

JsonReturn ==
    /\ gens["json"].pc = "returned"
    /\ json.state = "pending"
    /\ json' = Json_onReturn(json)
    /\ UNCHANGED <<sess, strm, timer, recv, trl, sc, gens, sse, plan, norm, wire, enc, reg, http, srv, cred, vint>>

JsonThrow ==
    /\ gens["json"].pc = "thrown"
    /\ json.state = "pending"
    /\ json' = Json_onThrow(json, gens["json"].raised)
    /\ UNCHANGED <<sess, strm, timer, recv, trl, sc, gens, sse, plan, norm, wire, enc, reg, http, srv, cred, vint>>

\* what the http2 session and stream can emit
Transport ==
    \/ Connect
    \/ \E err \in NetErrors : SessionError(err)
    \/ \E err \in NetErrors : StreamError(err)
    \/ \E chunk \in Chunks : Data(chunk)
    \/ \E trailers \in TrailerSet : Trailers(trailers)
    \/ End

Next ==
    \/ StartCall
    \/ TimerFire
    \/ Transport
    \/ GenResume("pull")
    \/ GenNext("pull")

Spec == Init /\ [][Next]_vars

\* the timer, the microtask queue and a consumer that keeps pulling are fair,
\* and the end of the stream follows its trailers; beyond that the remote
\* service is not obliged to send anything
FairSpec ==
    /\ Spec
    /\ WF_vars(StartCall)
    /\ WF_vars(strm = "trailed" /\ End)
    /\ WF_vars(TimerFire)
    /\ WF_vars(GenResume("pull"))
    /\ WF_vars(GenNext("pull"))

\* the same calls with a consumer that may leave its loop early
NextAbandon ==
    \/ Next
    \/ GenAbandon("pull")

SpecAbandon == Init /\ [][NextAbandon]_vars

NextResp ==
    \/ StartResponses
    \/ Transport
    \/ GenResume("sse")
    \/ GenResume("json")
    \/ SseChunk
    \/ SseReturn
    \/ SseThrow
    \/ JsonChunk
    \/ JsonReturn
    \/ JsonThrow

SpecResp == InitResp /\ [][NextResp]_vars

(***************************************************************************)
(* A tool-planning request: handleToolPlanning or handleToolPlanningStream *)
(* with its one bridge call, gens.plan.                                    *)
(***************************************************************************)
InitPlan == InitWith({"plan"})

\* the handler is called: planToolCall, runWindsurfOnce, and the for await
\* pulls the generator for the first time
PlanStart(isStreaming) ==
    /\ plan.pc = "NoTools"
    /\ sess = "idle"
    /\ sess' = "connecting"
    /\ strm' = "open"
    /\ plan' = Plan_start(plan, isStreaming)
    /\ gens' = [gens EXCEPT !["plan"] = Gen_start(@)]
    /\ UNCHANGED <<timer, recv, trl, sc, sse, json, norm, wire, enc, reg, http, srv, cred, vint>>

\* runWindsurfOnce: one turn of the for await loop
PlanChunk ==
    /\ plan.pc = "Planning"
    /\ gens["plan"].pc = "yielded"
    /\ plan' = Plan_onChunk(plan, Last(gens["plan"].yielded))
    /\ gens' = [gens EXCEPT !["plan"] = Gen_next(@)]
    /\ UNCHANGED <<sess, strm, timer, recv, trl, sc, sse, json, norm, wire, enc, reg, http, srv, cred, vint>>

\* the generator has returned: the text is joined and parsed
PlanParse ==
    /\ plan.pc = "Planning"
    /\ gens["plan"].pc = "returned"
    /\ plan' = Plan_parse(plan)
    /\ UNCHANGED <<sess, strm, timer, recv, trl, sc, gens, sse, json, norm, wire, enc, reg, http, srv, cred, vint>>

\* the handler answers from the plan
PlanRespond ==
    /\ plan.pc = "Parsed"
    /\ plan' = Plan_respond(plan)
    /\ UNCHANGED <<sess, strm, timer, recv, trl, sc, gens, sse, json, norm, wire, enc, reg, http, srv, cred, vint>>

\* the generator has thrown
PlanThrow ==
    /\ plan.pc = "Planning"
    /\ gens["plan"].pc = "thrown"
    /\ plan' = Plan_onThrow(plan, gens["plan"].raised)
    /\ UNCHANGED <<sess, strm, timer, recv, trl, sc, gens, sse, json, norm, wire, enc, reg, http, srv, cred, vint>>

\* what the session and the stream of the bridge call can emit
PlanTransport ==
    \/ Connect
    \/ \E err \in NetErrors : SessionError(err)
    \/ \E err \in NetErrors : StreamError(err)
    \/ \E chunk \in PlanChunks : Data(chunk)
    \/ \E trailers \in TrailerSet : Trailers(trailers)
    \/ End

NextPlan ==
    \/ \E isStreaming \in BOOLEAN : PlanStart(isStreaming)
    \/ PlanTransport
    \/ GenResume("plan")
    \/ PlanChunk
    \/ PlanParse
    \/ PlanRespond
    \/ PlanThrow

SpecPlan == InitPlan /\ [][NextPlan]_vars

(***************************************************************************)
(* normalizeToolArguments applied to a value, then to its own result.      *)
(***************************************************************************)
\* values a model can put in "arguments": texts that are JSON, texts that
\* only look like JSON, plain texts, and the other kinds of value
RawBase ==
    << JStr(<<"x">>), JStr(<<"{", "}">>), JStr(<<"[", "1", "]">>), JStr(<<" ", "[", "1", "]", " ">>),
       JStr(<<"{", "x", "}">>), JStr(<<"[", "\"", "[", "1", "]", "\"", "]">>),
       JStr(<<"{", "\"", "a", "\"", ":", "\"", "{", "}", "\"", "}">>), JStr(<<"[">>),
       JNull, JNum(<<"1">>), JTrue >>

\* the base values, arrays of one and of two of them, and objects holding one
RawValues ==
    LET n == Len(RawBase)
    IN  RawBase
        \o [i \in 1..n |-> JArr(<<RawBase[i]>>)]
        \o [i \in 1..(n * n) |->
              JArr(<<RawBase[((i - 1) \div n) + 1], RawBase[((i - 1) % n) + 1]>>)]
        \o [i \in 1..n |-> JObj(<<[k |-> <<"a">>, val |-> RawBase[i]]>>)]

InitNorm ==
    /\ BridgeIdle({})
    /\ plan = PlanIdle
    /\ wire = WireIdle
    /\ enc = EncIdle
    /\ reg = RegIdle
    /\ http = HttpIdle
    /\ srv = SrvIdle(TRUE, "free")
    /\ cred = CredIdle
    /\ vint = VarintIdle
    /\ \E i \in 1..Len(RawValues) : norm = [NormIdle EXCEPT !.raw = RawValues[i]]

NormApply ==
    /\ norm.stage = 0
    /\ norm' = [norm EXCEPT !.stage = 1, !.once = normalizeToolArguments(norm.raw)]
    /\ UNCHANGED <<sess, strm, timer, recv, trl, sc, gens, sse, json, plan, wire, enc, reg, http, srv, cred, vint>>

NormAgain ==
    /\ norm.stage = 1
    /\ norm' = [norm EXCEPT !.stage = 2, !.twice = normalizeToolArguments(norm.once)]
    /\ UNCHANGED <<sess, strm, timer, recv, trl, sc, gens, sse, json, plan, wire, enc, reg, http, srv, cred, vint>>

NextNorm == NormApply \/ NormAgain

SpecNorm == InitNorm /\ [][NextNorm]_vars

(***************************************************************************)
(* Calls that build a wire request, and the clock between them.            *)
(***************************************************************************)
InitWire == InitWith({})

\* a millisecond passes
Tick ==
    /\ wire.now < Epoch + MaxTicks
    /\ wire' = [wire EXCEPT !.now = @ + 1]
    /\ UNCHANGED <<sess, strm, timer, recv, trl, sc, gens, sse, json, plan, norm, enc, reg, http, srv, cred, vint>>

\* streamChat or streamChatGenerator builds the body of its request
BuildRequest(requestMessages, modelEnum) ==
    /\ Len(wire.requests) < MaxCalls
    /\ wire' = Wire_build(wire, requestMessages, modelEnum)
    /\ UNCHANGED <<sess, strm, timer, recv, trl, sc, gens, sse, json, plan, norm, enc, reg, http, srv, cred, vint>>

NextWire ==
    \/ Tick
    \/ \E requestMessages \in MessageLists, modelEnum \in ModelEnums :
          BuildRequest(requestMessages, modelEnum)

SpecWire == InitWire /\ [][NextWire]_vars

(***************************************************************************)
(* Calls of encodeString.                                                  *)
(***************************************************************************)
InitEnc == InitWith({})

EncodeString(fieldNum, str) ==
    /\ enc.stage = 0
    /\ enc' = Enc_first(enc, fieldNum, str)
    /\ UNCHANGED <<sess, strm, timer, recv, trl, sc, gens, sse, json, plan, norm, wire, reg, http, srv, cred, vint>>

EncodeAgain ==
    /\ enc.stage = 1
    /\ enc' = Enc_again(enc)
    /\ UNCHANGED <<sess, strm, timer, recv, trl, sc, gens, sse, json, plan, norm, wire, reg, http, srv, cred, vint>>

NextEnc ==
    \/ \E fieldNum \in 1..MaxFieldNum, str \in EncStrings : EncodeString(fieldNum, str)
    \/ EncodeAgain

SpecEnc == InitEnc /\ [][NextEnc]_vars

(***************************************************************************)
(* Calls of the model registry.                                            *)
(***************************************************************************)
InitReg == InitWith({})

LookupModel(modelName) ==
    /\ reg.op = "none"
    /\ reg' = Reg_lookup(reg, modelName)
    /\ UNCHANGED <<sess, strm, timer, recv, trl, sc, gens, sse, json, plan, norm, wire, enc, http, srv, cred, vint>>

ResolveModel(modelName, variantOverride) ==
    /\ reg.op = "none"
    /\ reg' = Reg_resolve(reg, modelName, variantOverride)
    /\ UNCHANGED <<sess, strm, timer, recv, trl, sc, gens, sse, json, plan, norm, wire, enc, http, srv, cred, vint>>

NextReg ==
    \/ \E modelName \in ModelNames : LookupModel(modelName)
    \/ \E modelName \in ResolveNames, variantOverride \in Overrides :
          ResolveModel(modelName, variantOverride)

SpecReg == InitReg /\ [][NextReg]_vars

(***************************************************************************)
(* Requests to the proxy server.                                           *)
(***************************************************************************)
InitHttp == InitWith({})

HandleRequest(req) ==
    /\ http.stage = 0
    /\ http' = Http_handle(http, req)
    /\ UNCHANGED <<sess, strm, timer, recv, trl, sc, gens, sse, json, plan, norm, wire, enc, reg, srv, cred, vint>>

NextHttp == \E req \in Requests : HandleRequest(req)

SpecHttp == InitHttp /\ [][NextHttp]_vars

(***************************************************************************)
(* Plugin loads: calls of ensureWindsurfProxyServer and of the hook.       *)
(***************************************************************************)
InitSrv ==
    /\ BridgeIdle({})
    /\ plan = PlanIdle
    /\ norm = NormIdle
    /\ wire = WireIdle
    /\ enc = EncIdle
    /\ reg = RegIdle
    /\ http = HttpIdle
    /\ \E bun \in BOOLEAN, occupant \in Occupants : srv = SrvIdle(bun, occupant)
    /\ cred = CredIdle
    /\ vint = VarintIdle

\* a plugin load calls ensureWindsurfProxyServer
EnsureStart(i) ==
    /\ srv.calls[i].pc = "idle"
    /\ srv' = Ensure_start(srv, i)
    /\ UNCHANGED <<sess, strm, timer, recv, trl, sc, gens, sse, json, plan, norm, wire, enc, reg, http, cred, vint>>

\* the fetch of a health check settles
HealthSettles(i) ==
    /\ srv.calls[i].pc \in {"check1", "check2"}
    /\ srv' = Health_settle(srv, i)
    /\ UNCHANGED <<sess, strm, timer, recv, trl, sc, gens, sse, json, plan, norm, wire, enc, reg, http, cred, vint>>

\* the call resumes after its first health check
EnsureHealth1(i) ==
    /\ srv.calls[i].pc = "after1"
    /\ srv' = Ensure_afterHealth1(srv, i)
    /\ UNCHANGED <<sess, strm, timer, recv, trl, sc, gens, sse, json, plan, norm, wire, enc, reg, http, cred, vint>>

\* the call resumes after its second health check
EnsureHealth2(i) ==
    /\ srv.calls[i].pc = "after2"
    /\ srv' = Ensure_afterHealth2(srv, i)
    /\ UNCHANGED <<sess, strm, timer, recv, trl, sc, gens, sse, json, plan, norm, wire, enc, reg, http, cred, vint>>

\* OpenCode calls the chat.params hook of a plugin that has loaded
CallChatParams(i, providerID, options) ==
    /\ srv.calls[i].pc = "returned"
    /\ srv' = ChatParams(srv, i, providerID, options)
    /\ UNCHANGED <<sess, strm, timer, recv, trl, sc, gens, sse, json, plan, norm, wire, enc, reg, http, cred, vint>>

NextSrv ==
    \/ \E i \in Loads : EnsureStart(i)
    \/ \E i \in Loads : HealthSettles(i)
    \/ \E i \in Loads : EnsureHealth1(i)
    \/ \E i \in Loads : EnsureHealth2(i)
    \/ \E i \in Loads, providerID \in ProviderIDs, options \in OptionsBefore :
          CallChatParams(i, providerID, options)

SpecSrv == InitSrv /\ [][NextSrv]_vars

(***************************************************************************)
(* Chat requests and the provider of the credentials.                      *)
(***************************************************************************)
InitCred == InitWith({})

\* requests are numbered in the order in which they arrive
ChatArrives(r) ==
    /\ cred.reqs[r].pc = "idle"
    /\ \A q \in 1..(r - 1) : cred.reqs[q].pc # "idle"
    /\ ~InHandlerSync(cred)
    /\ cred' = Chat_arrive(cred, r)
    /\ UNCHANGED <<sess, strm, timer, recv, trl, sc, gens, sse, json, plan, norm, wire, enc, reg, http, srv, vint>>

ChatCheckRunning(r) ==
    /\ cred.reqs[r].pc = "arrived"
    /\ cred' = Chat_checkRunning(cred, r)
    /\ UNCHANGED <<sess, strm, timer, recv, trl, sc, gens, sse, json, plan, norm, wire, enc, reg, http, srv, vint>>

ChatGetCredentials(r) ==
    /\ cred.reqs[r].pc = "running"
    /\ cred' = Chat_getCredentials(cred, r)
    /\ UNCHANGED <<sess, strm, timer, recv, trl, sc, gens, sse, json, plan, norm, wire, enc, reg, http, srv, vint>>

ChatUpstream(r) ==
    /\ cred.reqs[r].pc = "ready"
    /\ ~InHandlerSync(cred)
    /\ cred' = Chat_upstream(cred, r)
    /\ UNCHANGED <<sess, strm, timer, recv, trl, sc, gens, sse, json, plan, norm, wire, enc, reg, http, srv, vint>>

ProviderChanges(q) ==
    /\ cred.changes < MaxChanges
    /\ q \in OneChange(cred.provider)
    /\ cred' = Provider_change(cred, q)
    /\ UNCHANGED <<sess, strm, timer, recv, trl, sc, gens, sse, json, plan, norm, wire, enc, reg, http, srv, vint>>

NextCred ==
    \/ \E r \in ChatRequests : ChatArrives(r)
    \/ \E r \in ChatRequests : ChatCheckRunning(r)
    \/ \E r \in ChatRequests : ChatGetCredentials(r)
    \/ \E r \in ChatRequests : ChatUpstream(r)
    \/ \E q \in Providers : ProviderChanges(q)

SpecCred == InitCred /\ [][NextCred]_vars

(***************************************************************************)
(* Calls of encodeVarint.                                                  *)
(***************************************************************************)
InitVarint == InitWith({})

EncodeVarint(v) ==
    /\ vint.stage = 0
    /\ vint' = Varint_encode(vint, v)
    /\ UNCHANGED <<sess, strm, timer, recv, trl, sc, gens, sse, json, plan, norm, wire, enc, reg, http, srv, cred>>

NextVarint == \E v \in VarintValues : EncodeVarint(v)

SpecVarint == InitVarint /\ [][NextVarint]_vars

(***************************************************************************)
(* Properties.                                                             *)
(***************************************************************************)
IsPrefix(a, b) == Len(a) <= Len(b) /\ a = SubSeq(b, 1, Len(a))

\* the texts options.onChunk was invoked with, in order
ChunkCalls(calls) ==
    LET only == SelectSeq(calls, LAMBDA c : c.cb = "onChunk")
    IN  [i \in 1..Len(only) |-> only[i].text]

\* the generator has told its consumer that the sequence is over
Finished(g) == g.pc \in {"returned", "thrown"}

\* C1: the fragments yielded by streamChatGenerator are at every moment a
\* prefix of the non-empty texts extracted from the chunks in arrival order,
\* and when the generator returns without error they are all of them.
C1_YieldedInOrder ==
    LET g == gens["pull"]
    IN  /\ IsPrefix(g.yielded, Extracted)
        /\ g.pc = "returned" => g.yielded = Extracted

\* C1 witness: a finished stream of two different fragments and a chunk
\* without text, consumed to its end
C1_Witness ==
    LET g == gens["pull"]
    IN  /\ g.pc = "returned"
        /\ Len(g.yielded) >= 2
        /\ g.yielded[1] # g.yielded[2]
        /\ Len(recv) > Len(g.yielded)

\* C2 (as claimed): once trailers with a grpc-status other than '0' have
\* arrived, streamChat's promise is rejected, and a finished generator has
\* thrown, with STREAM_ERROR carrying the status and the decoded grpc-message;
\* after trailers with status '0' there is no error at all.
C2_NonZeroStatusIsAnError ==
    LET g == gens["pull"]
        expected(t) ==
            [ name |-> "WindsurfError", code |-> "STREAM_ERROR",
              template |-> "gRPC error : ", status |-> t.status,
              detail |-> IF t.message = <<>> THEN UnknownError
                         ELSE decodeURIComponent(t.message) ]
    IN  /\ (trl # <<>> /\ trl[1].status \notin {"0", Undefined}) =>
              /\ sc.promise.state = "rejected"
              /\ sc.promise.reason = expected(trl[1])
              /\ Finished(g) => (g.pc = "thrown" /\ g.raised = expected(trl[1]))
        /\ (trl # <<>> /\ trl[1].status = "0") =>
              /\ sc.promise.state # "rejected"
              /\ \A k \in 1..Len(sc.calls) : sc.calls[k].cb # "onError"
              /\ g.error = NoError
              /\ g.pc # "thrown"

\* C3: when the timer fires while the promise is pending, client.close() is
\* called and the promise resolves with the concatenation of the fragments
\* passed to onChunk so far; the timer step makes no onError call, and a
\* promise resolved by it stays resolved with that text.
C3_TimeoutResolves ==
    [][ /\ (timer = "armed" /\ timer' = "fired") =>
            /\ sc'.closed
            /\ \A k \in 1..Len(sc'.calls) :
                  sc'.calls[k].cb = "onError" => k <= Len(sc.calls)
            /\ sc.promise.state = "pending" =>
                  sc'.promise = [ state |-> "resolved",
                                  value |-> Join(ChunkCalls(sc.calls)),
                                  reason |-> NoError ]
        /\ sc.promise.state = "resolved" => sc'.promise = sc.promise
      ]_vars

\* C3 witness: the promise was resolved with a fragment while the stream is
\* still open, which only the timer does
C3_Witness ==
    /\ timer = "fired"
    /\ strm = "open"
    /\ sc.promise.state = "resolved"
    /\ sc.promise.value # <<>>

\* C4 (as claimed): a consumer that keeps pulling from streamChatGenerator is
\* eventually told that the sequence is finished, whatever the remote sends
\* or fails to send.
C4_PullEventuallyFinishes == <>Finished(gens["pull"])

\* C5: the consumer of streamChatGenerator is suspended on an unresolved
\* promise only while the queue is empty and the stream is not done, so every
\* enqueue, end or error leaves it woken.
C5_NoLostWakeup ==
    LET g == gens["pull"]
    IN  /\ g.pc = "waiting" => (g.chunkQueue = <<>> /\ ~g.done)
        /\ g.resolveWait <=> g.pc \in {"waiting", "woken"}

\* C5 witness: a consumer that had consumed a fragment and suspended again
\* has been woken by an enqueue
C5_Witness ==
    LET g == gens["pull"]
    IN  g.pc = "woken" /\ Len(g.yielded) >= 1 /\ Len(g.chunkQueue) >= 1

\* C6: when the generator throws, every fragment extracted before the error
\* has been yielded, in order; and after a request error or a non-zero
\* trailer status a finished generator has thrown, never returned.
C6_ErrorAfterFragments ==
    LET g == gens["pull"]
        fault == strm = "error" \/ (trl # <<>> /\ trl[1].status # "0")
    IN  /\ g.pc = "thrown" => (g.yielded = Extracted /\ g.raised # NoError)
        /\ (fault /\ Finished(g)) => g.pc = "thrown"

\* C6 witness: an error thrown after two fragments
C6_Witness ==
    LET g == gens["pull"]
    IN  g.pc = "thrown" /\ Len(g.yielded) >= 2 /\ g.raised.code = "STREAM_ERROR"

\* C7 (as claimed): an error of kind CONNECTION_FAILED is reported only when
\* no data chunk had arrived, and an error reported after a fragment was
\* produced is of kind STREAM_ERROR, in streamChat and in the generator.
C7_ConnectionFailedOnlyBeforeData ==
    LET g == gens["pull"]
    IN  /\ sc.promise.state = "rejected" =>
              /\ sc.promise.reason.code = "CONNECTION_FAILED" => recv = <<>>
              /\ sc.chunks # <<>> => sc.promise.reason.code = "STREAM_ERROR"
        /\ g.pc = "thrown" =>
              /\ g.raised.code = "CONNECTION_FAILED" => recv = <<>>
              /\ g.yielded # <<>> => g.raised.code = "STREAM_ERROR"

\* C8 (as claimed): the queue of streamChatGenerator stays below a bound that
\* does not grow with the number of chunks the remote sends.
C8_ReadAheadBounded == Len(gens["pull"].chunkQueue) < MaxChunks

\* C8 (amended): the queue holds exactly the fragments extracted and not yet
\* yielded, so its length is limited only by the number of chunks received.
C8_QueueIsBacklog ==
    LET g == gens["pull"]
    IN  g.chunkQueue = SubSeq(Extracted, Len(g.yielded) + 1, Len(Extracted))

\* C8 witness: every chunk the remote sent is buffered
C8_Witness == Len(gens["pull"].chunkQueue) = MaxChunks

\* C9 (as claimed): once both the push call and the pull call have finished
\* on the same transport events, onChunk saw the fragments that were yielded
\* and the outcomes agree: the same full text, or an error of the same code.
C9_PushPullAgree ==
    LET g == gens["pull"]
    IN  (sc.promise.state # "pending" /\ Finished(g)) =>
            /\ ChunkCalls(sc.calls) = g.yielded
            /\ \/ /\ sc.promise.state = "resolved"
                  /\ g.pc = "returned"
                  /\ sc.promise.value = Join(g.yielded)
               \/ /\ sc.promise.state = "rejected"
                  /\ g.pc = "thrown"
                  /\ sc.promise.reason.code = g.raised.code

\* the delta.content values of the SSE chunks, in order
DeltaContents(frames) ==
    LET only == SelectSeq(frames, LAMBDA f : f.object = "chat.completion.chunk")
    IN  [i \in 1..Len(only) |-> only[i].content]

\* the streamed response has ended with [DONE]
SseSucceeded == sse.closed /\ Last(sse.frames) = DoneFrame

\* C10: when the streamed and the non-streamed response to the same request
\* have both ended on the same transport events, one has succeeded exactly
\* if the other has, and then the concatenation of the delta.content values
\* equals message.content.
C10_StreamedEqualsCollected ==
    (sse.closed /\ json.state # "pending") =>
        /\ SseSucceeded <=> json.state = "resolved"
        /\ SseSucceeded => Join(DeltaContents(sse.frames)) = json.response.content

\* C10 witness: both responses have succeeded with two fragments
C10_Witness ==
    /\ SseSucceeded
    /\ json.state = "resolved"
    /\ Len(json.chunks) >= 2
    /\ Len(recv) > Len(json.chunks)


\* C11: a response of zero data chunks, then trailers with grpc-status '0',
\* then end-of-stream completes with the empty string: streamChat has resolved
\* '' and never called onError, the generator has yielded nothing, holds no
\* error, and when it finishes it returns.
C11_EmptyResponseIsEmptyString ==
    (strm = "ended" /\ recv = <<>> /\ trl # <<>> /\ trl[1].status = "0") =>
        /\ sc.promise.state = "resolved"
        /\ sc.promise.value = <<>>
        /\ \A i \in 1..Len(sc.calls) : sc.calls[i].cb # "onError"
        /\ gens["pull"].yielded = <<>>
        /\ gens["pull"].error = NoError
        /\ gens["pull"].pc # "thrown"
        /\ Finished(gens["pull"]) => gens["pull"].pc = "returned"

C11_Witness ==
    /\ strm = "ended" /\ recv = <<>> /\ trl # <<>> /\ trl[1].status = "0"
    /\ timer = "armed"
    /\ sc.promise.state = "resolved"
    /\ gens["pull"].pc = "returned"

\* the request has been parsed: the bridge call returned and planToolCall ran
Planned == plan.pc \in {"Parsed", "Final", "ToolCall"}

\* from index i on, output is tagged calls <tool_call>name {json} and nothing
\* else, each with arguments that are JSON
RECURSIVE TaggedFrom(_, _)
TaggedFrom(output, i) ==
    LET m    == TagMatchAt(output, i)
        next == Scan(output, m.last + 1, WS, FALSE)
    IN  /\ m.ok
        /\ JSONparse(m.rawArgs).ok
        /\ next > Len(output) \/ TaggedFrom(output, next)

\* the names of the tagged calls of such an output
RECURSIVE TaggedNames(_, _)
TaggedNames(output, i) ==
    LET m    == TagMatchAt(output, i)
        next == Scan(output, m.last + 1, WS, FALSE)
    IN  <<m.name>> \o (IF next > Len(output) THEN <<>> ELSE TaggedNames(output, next))

\* C12: an output made of one or more well-formed tagged calls yields a
\* tool_call plan with every (name, arguments) pair, and a null plan means
\* that neither the direct parse nor the tagged scan recovers anything.
C12_TaggedCallsGiveAPlan ==
    Planned =>
        /\ TaggedFrom(plan.content, 1) =>
              /\ plan.plan.action = "tool_call"
              /\ [i \in 1..Len(plan.plan.tool_calls) |-> plan.plan.tool_calls[i].name]
                    = TaggedNames(plan.content, 1)
        /\ plan.plan.action = "null" => Len(TaggedToolCalls(plan.content)) = 0


\* does the list of frames hold an error frame
HasErrorFrame(frames) ==
    \E i \in 1..Len(frames) :
        frames[i].object = "error" \/ frames[i].error # NoError

\* C13: when parseToolCallPlan returns null, handleToolPlanning and
\* handleToolPlanningStream answer with status 200 and a normal assistant
\* message with finish_reason 'stop' whose content is exactly the raw
\* collected text, and with no error frame.
C13_NullPlanFallsBackToRawText ==
    (plan.pc \in {"Final", "ToolCall", "Failed"}
        /\ gens["plan"].pc = "returned" /\ plan.plan.action = "null") =>
        /\ plan.pc = "Final"
        /\ plan.status = 200
        /\ plan.frames[1].content = Join(gens["plan"].yielded)
        /\ plan.frames[1].finish_reason = "stop"
        /\ plan.frames[1].tool_calls = <<>>
        /\ ~HasErrorFrame(plan.frames)
        /\ Len(plan.frames) = IF plan.isStreaming THEN 2 ELSE 1

\* C13 witness: a streamed planning request whose collected text, from two
\* chunks, gave no plan has been answered with that text
C13_Witness ==
    /\ plan.pc = "Final"
    /\ plan.isStreaming
    /\ plan.plan.action = "null"
    /\ plan.content # <<>>
    /\ plan.frames[1].content = plan.content
    /\ Len(recv) = 2


\* C14 as stated: a tool-planning request that has ended has ended in a
\* Final or a ToolCall response.
C14_EndsInFinalOrToolCall ==
    plan.closed => plan.pc \in {"Final", "ToolCall"}

\* the one response of a request that has ended in state pc
OneResponse ==
    /\ Len(plan.frames) = IF plan.isStreaming THEN 2 ELSE 1
    /\ plan.frames[1].object # "[DONE]"
    /\ plan.isStreaming => plan.frames[2].object = "[DONE]"

\* the shape of a tool-planning request in every state: one bridge call with
\* the user-role prompt, parsed only after the generator has returned, one
\* response of the kind its end state names
PlanShape ==
    /\ Len(plan.calls) = IF plan.pc = "NoTools" THEN 0 ELSE 1
    /\ \A i \in 1..Len(plan.calls) : plan.calls[i].roles = <<"user">>
    /\ Planned =>
          /\ gens["plan"].pc = "returned"
          /\ plan.content = Join(Extracted)
          /\ plan.content = Join(gens["plan"].yielded)
    /\ plan.pc \in {"Final", "ToolCall"} =>
          /\ OneResponse
          /\ ~HasErrorFrame(plan.frames)
          /\ (plan.pc = "ToolCall") = (plan.plan.action = "tool_call")
          /\ (plan.pc = "ToolCall") = (plan.frames[1].finish_reason = "tool_calls")
    /\ plan.pc = "Failed" =>
          /\ gens["plan"].pc = "thrown"
          /\ OneResponse
          /\ plan.frames[1].object = "error"
    /\ plan.closed = (plan.pc \in {"Final", "ToolCall", "Failed"})

\* C14 amended: a tool-planning request issues exactly one bridge call, with
\* the user-role tool prompt as its only message, and never a second one; it
\* is parsed only after the generator has returned, from the join of all its
\* fragments; a request whose bridge call returns ends in exactly one Final
\* or ToolCall response, one whose bridge call throws is never parsed and
\* ends in exactly one error response; an ended request never changes again.
C14_OneCallThenParse ==
    /\ []PlanShape
    /\ [][ /\ plan'.calls # plan.calls => plan.pc = "NoTools"
           /\ plan.closed => plan' = plan ]_vars

\* C14 witness: a request has ended in a ToolCall response after three chunks
C14_Witness ==
    /\ plan.pc = "ToolCall"
    /\ Len(plan.chunks) = 3
    /\ Len(plan.plan.tool_calls) = 1


\* no string at any depth of value is a {...} or [...] text that parses as JSON
RECURSIVE NoJsonText(_)
NoJsonText(value) ==
    IF value.t = "string"
    THEN ~(LooksJson(Trim(value.v)) /\ JSONparse(Trim(value.v)).ok)
    ELSE IF value.t = "array"
         THEN \A i \in 1..Len(value.v) : NoJsonText(value.v[i])
    ELSE IF value.t = "object"
         THEN \A i \in 1..Len(value.v) : NoJsonText(value.v[i].val)
    ELSE TRUE

\* C15: every plan parseToolCallPlan returns is fully valid: a tool_call plan
\* has at least one call and every call has normalized arguments (a name is
\* a text by construction of the plan);
\* an output that names no usable call never yields a tool_call plan.
C15_PlanFullyValid ==
    (Planned /\ plan.plan.action = "tool_call") =>
        /\ Len(plan.plan.tool_calls) >= 1
        /\ \A i \in 1..Len(plan.plan.tool_calls) :
              /\ plan.plan.tool_calls[i].arguments.t \notin {"null", "undefined"}
              /\ NoJsonText(plan.plan.tool_calls[i].arguments)


\* the text of ChunkFinal: {"action":"final","content":"done"}
FinalDone == Tail(ChunkFinal)

\* output is FinalDone with text before it that holds no '{' and text after
\* it that holds no '}'
WrapsFinalDone(output) ==
    \E i \in 1..Len(output) :
        /\ At(output, i, FinalDone)
        /\ \A k \in 1..(i - 1) : output[k] # "{"
        /\ \A k \in (i + Len(FinalDone))..Len(output) : output[k] # "}"

\* C16: an output whose substring from the first '{' to the last '}' is the
\* JSON object {"action":"final","content":"done"} gives the final plan with
\* content "done", whatever precedes and follows it.
C16_FinalPlanDespiteNoise ==
    (Planned /\ WrapsFinalDone(plan.content)) =>
        plan.plan = FinalPlan(<<"d", "o", "n", "e">>)

\* C16 witness: the object came between two chunks of other text
C16_Witness ==
    /\ Planned
    /\ Len(plan.chunks) = 3
    /\ plan.chunks[2] = FinalDone
    /\ WrapsFinalDone(plan.content)
    /\ plan.plan.action = "final"


\* every string of raw that is not a {...} or [...] text that parses stands
\* unchanged at the same place of once
RECURSIVE KeptUnparsed(_, _)
KeptUnparsed(raw, once) ==
    IF raw.t = "string"
    THEN \/ LooksJson(Trim(raw.v)) /\ JSONparse(Trim(raw.v)).ok
         \/ once.t = "string" /\ once.v = raw.v
    ELSE IF raw.t = "array"
         THEN /\ once.t = "array"
              /\ Len(once.v) = Len(raw.v)
              /\ \A i \in 1..Len(raw.v) : KeptUnparsed(raw.v[i], once.v[i])
    ELSE IF raw.t = "object"
         THEN /\ once.t = "object"
              /\ Len(once.v) = Len(raw.v)
              /\ \A i \in 1..Len(raw.v) :
                    /\ once.v[i].k = raw.v[i].k
                    /\ KeptUnparsed(raw.v[i].val, once.v[i].val)
    ELSE TRUE

\* C17: the result of normalizeToolArguments holds no string, at any depth,
\* that is a {...} or [...] text parsing as JSON; strings that do not parse
\* are left unchanged; and applying the function to its result changes
\* nothing.
C17_NormalizeIsIdempotent ==
    /\ norm.stage >= 1 =>
          /\ NoJsonText(norm.once)
          /\ KeptUnparsed(norm.raw, norm.once)
    /\ norm.stage = 2 => norm.twice = norm.once

\* C17 witness: an array of a text holding JSON within JSON and a text that
\* only looks like JSON has been normalized twice
C17_Witness ==
    /\ norm.stage = 2
    /\ norm.raw.t = "array"
    /\ Len(norm.raw.v) = 2
    /\ norm.raw.v[1].t = "string" /\ norm.raw.v[1].v = <<"[", "\"", "[", "1", "]", "\"", "]">>
    /\ norm.raw.v[2].t = "string" /\ norm.raw.v[2].v = <<"{", "x", "}">>
    /\ norm.once.v[1].t = "array"
    /\ norm.once.v[1].v[1].t = "array"
    /\ norm.once.v[2].t = "string"


\* the fields of the payload, of its metadata block and of its chat turn
TopFields(frame) == DecodeFields(FramePayload(frame), 1)

MetadataFields(frame) == DecodeFields(FieldOf(TopFields(frame), 1).data, 1)

ChatFields(frame) == DecodeFields(FieldOf(TopFields(frame), 2).data, 1)

\* the prompt bytes: chat turn, field 5 (intent), field 1, field 1
PromptOf(frame) ==
    LET intent  == DecodeFields(FieldOf(ChatFields(frame), 5).data, 1)
        generic == DecodeFields(FieldOf(intent, 1).data, 1)
    IN  FieldOf(generic, 1).data

\* the text of the last message of the request whose role is user
LastUserText(requestMessages) ==
    LET at == {i \in 1..Len(requestMessages) : requestMessages[i].role = "user"}
    IN  IF at = {} THEN <<>> ELSE Join(requestMessages[MaxOf(at)].parts)

\* the numbers (or the wire types) of a list of fields
FieldNumbers(fields) == [i \in 1..Len(fields) |-> fields[i].field]

FieldTypes(fields) == [i \in 1..Len(fields) |-> fields[i].type]

C19_ThreeFieldsInOrder ==
    \A i \in 1..Len(wire.requests) :
        LET r == wire.requests[i]
        IN  /\ SubSeq(r.frame, 1, 5) = <<0>> \o UInt32BE(Len(r.frame) - 5)
            /\ FieldNumbers(TopFields(r.frame)) = <<1, 2, 4>>
            /\ FieldTypes(TopFields(r.frame)) = <<2, 2, 0>>
            /\ TopFields(r.frame)[3].value = r.modelEnum
            /\ FieldNumbers(MetadataFields(r.frame)) = <<1, 2, 3, 4, 7, 9, 10, 12>>
            /\ FieldNumbers(ChatFields(r.frame)) = <<1, 2, 3, 4, 5>>
            /\ FieldOf(ChatFields(r.frame), 2).value = USER
            /\ PromptOf(r.frame) = Utf8(LastUserContent(r.messages))

\* C19 witness: requests were built from the empty list and from a list
\* whose chat turn is longer than 127 bytes
C19_Witness ==
    /\ Len(wire.requests) = 2
    /\ wire.requests[1].requestMessages = <<>>
    /\ PromptOf(wire.requests[1].frame) = <<>>
    /\ FieldOf(TopFields(wire.requests[2].frame), 2).value > 127

\* C20: any two distinct calls that build a request carry different request
\* identifiers (metadata field 9) and different session identifiers
\* (metadata field 10).
C20_DistinctIdentifiers ==
    \A i, j \in 1..Len(wire.requests) :
        i # j =>
            /\ FieldOf(MetadataFields(wire.requests[i].frame), 9).value
                 # FieldOf(MetadataFields(wire.requests[j].frame), 9).value
            /\ FieldOf(MetadataFields(wire.requests[i].frame), 10).data
                 # FieldOf(MetadataFields(wire.requests[j].frame), 10).data

\* the unsigned integer that four bytes spell, most significant byte first
FromUInt32BE(bytes) ==
    ((bytes[1] * 256 + bytes[2]) * 256 + bytes[3]) * 256 + bytes[4]

\* C21: the output of buildChatRequest for a payload of n bytes is 5 + n
\* bytes long: byte 0 is 0, bytes 1..4 are n as a big-endian unsigned 32-bit
\* integer, and bytes 5 onward are the payload unchanged.
C21_FrameIsFlagLengthPayload ==
    \A i \in 1..Len(wire.requests) :
        LET frame   == wire.requests[i].frame
            payload == wire.requests[i].payload
            n       == Len(payload)
        IN  /\ Len(frame) = 5 + n
            /\ frame[1] = 0
            /\ \A k \in 2..5 : frame[k] \in 0..255
            /\ FromUInt32BE(SubSeq(frame, 2, 5)) = n
            /\ SubSeq(frame, 6, Len(frame)) = payload
            /\ \A k \in 1..n : payload[k] \in 0..255

\* C21 witness: a request whose payload is longer than 255 bytes, so that
\* the length prefix has two non-zero bytes
C21_Witness ==
    \E i \in 1..Len(wire.requests) :
        /\ Len(wire.requests[i].payload) > 255
        /\ wire.requests[i].frame[4] > 0
        /\ wire.requests[i].frame[5] > 0

\* the number of bytes UTF-8 needs for a string, from the code points: one
\* for each character, one more from U+0080 on, one more from U+0800 on
Utf8Length(str) ==
    Len(str)
    + Cardinality({i \in 1..Len(str) : CodePoint(str[i]) >= 128})
    + Cardinality({i \in 1..Len(str) : CodePoint(str[i]) >= 2048})

\* C22: encodeString(f, s) is the tag byte (f << 3) | 2, then the varint of
\* the UTF-8 byte length of s, then those bytes; the same inputs give the
\* same bytes; field 1 with "hi" gives 0x0A 0x02 0x68 0x69.
C22_EncodeStringLayout ==
    /\ enc.stage >= 1 =>
          LET length == DecodeVarint(enc.bytes, 2)
          IN  /\ enc.bytes[1] = enc.fieldNum * 8 + 2
              /\ length.ok
              /\ length.value = Utf8Length(enc.str)
              /\ SubSeq(enc.bytes, 2, length.next - 1) = encodeVarint(length.value)
              /\ SubSeq(enc.bytes, length.next, Len(enc.bytes)) = Utf8(enc.str)
              /\ Len(enc.bytes) = length.next - 1 + length.value
              /\ (enc.fieldNum = 1 /\ enc.str = <<"h", "i">>)
                    => enc.bytes = <<10, 2, 104, 105>>
    /\ enc.stage = 2 => enc.again = enc.bytes

\* C22 witness: a string with characters of two and three bytes, longer in
\* bytes than in characters, was encoded twice
C22_Witness ==
    /\ enc.stage = 2
    /\ enc.str = TextPrice
    /\ Len(enc.str) = 4
    /\ enc.bytes[2] = 7

\* the names of the model table
TableNames == {MODEL_NAME_TO_ENUM[i].name : i \in 1..Len(MODEL_NAME_TO_ENUM)}

\* C23: for every string that is not a key of the model table after
\* lower-casing and trimming, modelNameToEnum returns the default enum value,
\* the enum of getDefaultModel().
C23_UnknownNameGivesDefault ==
    (reg.op = "modelNameToEnum" /\ Trim(ToLowerCase(reg.modelName)) \notin TableNames)
        => /\ reg.enum = getDefaultModelEnum
           /\ reg.enum = modelNameToEnum(getDefaultModel)

\* C24: for every name of the model table written with ".", the name with
\* each "." replaced by "-" is a name of the table too, and modelNameToEnum
\* gives both the same enum value.
C24_DotAndDashAgree ==
    (reg.op = "modelNameToEnum" /\ reg.modelName \in TableNames
                                /\ Dashed(reg.modelName) # reg.modelName)
        => /\ Dashed(reg.modelName) \in TableNames
           /\ reg.enum = modelNameToEnum(Dashed(reg.modelName))
           /\ reg.enum # Undefined

\* C24 witness: a dotted name was looked up whose dashed form maps to an
\* enum value other than the default
C24_Witness ==
    /\ reg.op = "modelNameToEnum"
    /\ reg.modelName = <<"s", "w", "e", "-", "1", ".", "5", "-", "t", "h", "i", "n", "k", "i", "n", "g">>
    /\ reg.enum = "SWE_1_5_THINKING"
    /\ modelNameToEnum(Dashed(reg.modelName)) = "SWE_1_5_THINKING"

\* the ids of the models that have variants
CatalogIds == {VariantCatalog[i].id : i \in 1..Len(VariantCatalog)}

VariantsOf(id) ==
    VariantCatalog[CHOOSE i \in 1..Len(VariantCatalog) : VariantCatalog[i].id = id].variants

Gemini30Pro == <<"g", "e", "m", "i", "n", "i", "-", "3", ".", "0", "-", "p", "r", "o">>

C26_OverrideWins ==
    (reg.op = "resolveModel" /\ reg.variantOverride # NoVariant)
        => reg.variant = reg.variantOverride

\* C26 witness: a name with the suffix "high" was resolved with the
\* override "low"
C26_Witness ==
    /\ reg.op = "resolveModel"
    /\ reg.modelName = <<"g", "e", "m", "i", "n", "i", "-", "3", "-", "0", "-", "p", "r", "o", "-", "h", "i", "g", "h">>
    /\ reg.variantOverride = <<"l", "o", "w">>
    /\ reg.modelId = Gemini30Pro
    /\ reg.variant = <<"l", "o", "w">>

\* a closed stream of frames: at least one, the last is 'data: [DONE]' and
\* no earlier one is
EndsWithDone(frames) ==
    /\ frames # <<>>
    /\ frames[Len(frames)].object = "[DONE]"
    /\ \A i \in 1..(Len(frames) - 1) : frames[i].object # "[DONE]"

\* C27: every streamed chat response, plain or tool-planning, successful or
\* failed, is a sequence of data frames whose last frame is 'data: [DONE]',
\* after which the stream is closed and nothing more is enqueued.
C27_StreamEndsWithDone ==
    /\ [](/\ sse.closed => EndsWithDone(sse.frames)
          /\ (plan.isStreaming /\ plan.closed) => EndsWithDone(plan.frames))
    /\ [][/\ sse.closed => sse' = sse
          /\ (plan.isStreaming /\ plan.closed) => plan' = plan]_vars

\* a chat request that reaches the routing of the handler
IsRoutedChat ==
    /\ http.stage = 1
    /\ http.answer \in PlannerRoutes \cup BridgeRoutes

\* the request carries a non-empty list of tool definitions
CarriesTools == http.req.body.tools >= 1

\* the request has a tool message or an assistant message with tool calls
CarriesToolMessages ==
    /\ http.req.body.messages.present
    /\ \E i \in 1..Len(http.req.body.messages.list) :
          LET m == http.req.body.messages.list[i]
          IN  m.role = "tool" \/ (m.role = "assistant" /\ m.tool_calls >= 1)

\* C28 as stated: a chat request is handled by the Tool-Call Planner exactly
\* when it carries a non-empty list of tool definitions; without tool
\* definitions it goes to the Chat Bridge whatever roles its messages have.
C28_PlannerIffTools ==
    IsRoutedChat => (http.answer \in PlannerRoutes <=> CarriesTools)

\* C28 amended: a chat request is handled by the Tool-Call Planner exactly
\* when it carries a non-empty list of tool definitions or a message of role
\* tool or an assistant message with a non-empty tool_calls list; every
\* other chat request goes to the Chat Bridge; stream selects the streamed
\* function on either side.
C28_PlannerIffToolsOrToolMessages ==
    IsRoutedChat =>
        /\ http.answer \in PlannerRoutes <=> (CarriesTools \/ CarriesToolMessages)
        /\ http.answer \in BridgeRoutes <=> ~(CarriesTools \/ CarriesToolMessages)
        /\ http.req.body.stream
              <=> http.answer \in {"handleToolPlanningStream", "createStreamingResponse"}

\* C28 witness: a request without tool definitions whose messages hold a
\* tool result was handed to the planner
C28_Witness ==
    /\ IsRoutedChat
    /\ http.req.body.tools = -1
    /\ CarriesToolMessages
    /\ http.answer = "handleToolPlanning"

\* C29: after ensureWindsurfProxyServer has returned a base URL once, every
\* later call in the same process (one that starts after that return)
\* returns that same URL and starts no further server.
C29_LaterCallsReturnSameURL ==
    \A i \in Loads :
        (srv.calls[i].pc = "returned" /\ srv.calls[i].prior # 0)
            => /\ srv.calls[i].url = srv.calls[i].prior
               /\ srv.calls[i].started = 0

\* the ports on which a proxy listens: the servers of this process, and
\* 42100 when the proxy of another process holds it
ProxyPorts ==
    {srv.servers[k] : k \in 1..Len(srv.servers)}
    \cup (IF srv.occupant = "proxy" THEN {WINDSURF_PROXY_DEFAULT_PORT} ELSE {})

\* C30: ensureWindsurfProxyServer binds port 42100 when it is free, reuses a
\* server that answers /health on 42100, and starts a server on a random
\* port only when 42100 is held by something that does not answer /health;
\* whenever it returns, the base URL names the port of a listening proxy,
\* and that URL is what the chat.params hook injects.
C30_PortSelection ==
    /\ \A i \in Loads :
          srv.calls[i].pc = "returned" =>
              LET c == srv.calls[i]
              IN  /\ c.url \in ProxyPorts
                  /\ c.started # 0 => c.started = c.url
                  /\ c.started \notin {0, WINDSURF_PROXY_DEFAULT_PORT}
                        => srv.occupant = "foreign"
                  /\ srv.occupant = "free"
                        => /\ c.url = WINDSURF_PROXY_DEFAULT_PORT
                           /\ srv.servers = <<WINDSURF_PROXY_DEFAULT_PORT>>
                  /\ srv.occupant = "proxy"
                        => /\ c.url = WINDSURF_PROXY_DEFAULT_PORT
                           /\ srv.servers = <<>>
                  /\ srv.occupant = "foreign"
                        => c.url # WINDSURF_PROXY_DEFAULT_PORT
    /\ (srv.hook.load # 0 /\ srv.hook.providerID = ProviderIdOf(srv.hook.load))
          => /\ srv.hook.after.present
             /\ srv.hook.after.baseURL = srv.calls[srv.hook.load].url

\* C30 witness: with port 42100 free, two loads overlapped; one bound the
\* port, the other found it in use, had its second health check answered
\* and reused it, and its hook injected that URL
C30_Witness ==
    /\ srv.occupant = "free"
    /\ srv.calls[1].pc = "returned" /\ srv.calls[1].started = WINDSURF_PROXY_DEFAULT_PORT
    /\ srv.calls[2].pc = "returned" /\ srv.calls[2].started = 0
    /\ srv.calls[2].prior = 0
    /\ srv.hook.load = 2 /\ srv.hook.providerID = "codeium"
    /\ srv.hook.after.baseURL = WINDSURF_PROXY_DEFAULT_PORT

\* C31: every upstream call is made with the token, port, API key and
\* version that the provider gave while the request of that call was being
\* handled, whatever earlier requests obtained and however the provider has
\* changed between requests.
C31_CredentialsReadPerRequest ==
    \A k \in 1..Len(cred.calls) :
        LET call == cred.calls[k]
            seen == cred.reqs[call.req].seen
        IN  /\ \E p \in seen : getCSRFToken(p) = Returns(call.csrfToken)
            /\ \E p \in seen : getPort(p) = Returns(call.port)
            /\ \E p \in seen : getApiKey(p) = Returns(call.apiKey)
            /\ \E p \in seen : getWindsurfVersion(p) = call.version

\* C31 witness: request 1 held its credentials across the await while
\* Windsurf restarted with another token and port; request 2 arrived, read the
\* new values and called upstream with them, and then request 1 called with
\* its own
C31_Witness ==
    /\ Len(cred.calls) = 2
    /\ cred.calls[1].req = 2 /\ cred.calls[2].req = 1
    /\ cred.calls[1].csrfToken = "bbbb-2222" /\ cred.calls[2].csrfToken = "aaaa-1111"
    /\ cred.calls[1].port = 42012 /\ cred.calls[2].port = 42002

\* C32 (as claimed): when a chunk is processed, every non-empty text
\* extracted from the chunks before it has already been emitted as a
\* fragment, to onChunk and by the yield of streamChatGenerator, each once
\* and none of them empty.
C32_EmittedBeforeNextChunk ==
    [][recv' # recv =>
          /\ ChunkCalls(sc.calls) = Extracted
          /\ gens["pull"].yielded = Extracted]_vars

\* C32 (amended): each chunk with a non-empty text gives exactly one
\* fragment and a chunk without text gives none; the data handler passes it
\* to onChunk at once, and puts it in the queue of streamChatGenerator at
\* once, from where it is yielded when the consumer pulls; no fragment is the
\* empty string.
C32_OneFragmentPerChunkWithText ==
    LET g == gens["pull"]
    IN  /\ ChunkCalls(sc.calls) = Extracted
        /\ g.yielded \o g.chunkQueue = Extracted
        /\ \A i \in 1..Len(sc.calls) :
              sc.calls[i].cb = "onChunk" => sc.calls[i].text # <<>>
        /\ \A i \in 1..Len(g.yielded) : g.yielded[i] # <<>>
        /\ \A i \in 1..Len(g.chunkQueue) : g.chunkQueue[i] # <<>>

\* C32 witness: of three chunks one had no text; onChunk has had both
\* fragments, the generator has yielded the first and holds the second
C32_Witness ==
    LET g == gens["pull"]
    IN  /\ Len(recv) = 3
        /\ \E i \in 1..3 : extractTextFromChunk(recv[i]) = <<>>
        /\ Len(ChunkCalls(sc.calls)) = 2
        /\ Len(g.yielded) = 1
        /\ Len(g.chunkQueue) = 1

\* the name of the model of a request, for the two ModelEnum values used
RequestedModelName(modelEnum) ==
    IF modelEnum = 353 THEN enumToModelName("CLAUDE_4_5_SONNET")
    ELSE enumToModelName("GPT_5")

\* the length-delimited fields of a request: at the top level, in the
\* metadata block and in the chat-turn block
StringFields(frame) ==
    SelectSeq(TopFields(frame) \o MetadataFields(frame) \o ChatFields(frame),
              LAMBDA f : f.type = 2)

\* C33: every wire request carries the model enum value (field 4, a varint)
\* and, in a string field, the name of the requested model
\* (chat_model_name).
C33_EnumAndNameOnTheWire ==
    \A i \in 1..Len(wire.requests) :
        LET r == wire.requests[i]
        IN  /\ \E k \in 1..Len(TopFields(r.frame)) :
                  /\ TopFields(r.frame)[k].field = 4
                  /\ TopFields(r.frame)[k].type = 0
                  /\ TopFields(r.frame)[k].value = r.modelEnum
            /\ \E k \in 1..Len(StringFields(r.frame)) :
                  StringFields(r.frame)[k].data = Utf8(RequestedModelName(r.modelEnum))

\* the positions in the callbacks of streamChat at which onComplete or
\* onError was invoked
TerminalCalls ==
    {k \in 1..Len(sc.calls) : sc.calls[k].cb \in {"onComplete", "onError"}}

\* C34: in streamChat, over every sequence of transport and timer events, at
\* most one of onComplete and onError has been invoked, at most once, and
\* it is the last callback made.
C34_OneTerminalCallback ==
    /\ Cardinality(TerminalCalls) <= 1
    /\ \A k \in TerminalCalls : k = Len(sc.calls)

\* C35: when two plugin loads call ensureWindsurfProxyServer concurrently,
\* at most one proxy server is started in the process and the calls that
\* have returned have returned the same base URL.
C35_OneServerForConcurrentLoads ==
    srv.calls[3].pc = "idle" =>
        /\ Len(srv.servers) <= 1
        /\ (srv.calls[1].pc = "returned" /\ srv.calls[2].pc = "returned")
              => srv.calls[1].url = srv.calls[2].url

\* the session of a call has been closed: by client.close(), or destroyed by
\* its own error
SessionClosed(closed) == closed \/ sess = "failed"

\* C36: once a call has finished, its session has been closed: streamChat
\* with its promise settled (the end of the stream that follows trailers
\* being awaited), streamChatGenerator returned, thrown or left by its
\* consumer before it finished.
C36_SessionClosedWhenCallFinished ==
    LET g == gens["pull"]
    IN  /\ (sc.promise.state # "pending" /\ strm # "trailed")
              => SessionClosed(sc.closed)
        /\ (Finished(g) \/ g.pc = "abandoned") => SessionClosed(g.closed)

\* a trailer with a non-zero grpc-status, a stream error or a session error
\* has been observed
ErrorObserved ==
    \/ trl # <<>> /\ trl[1].status \notin {"0", Undefined}
    \/ strm = "error"
    \/ sess = "failed"

\* C37: a call reports an error only if a trailer with a non-zero
\* grpc-status, a stream error or a session error was observed; a response
\* that has ended without one, its trailers lacking grpc-status or absent,
\* has completed successfully with the fragments received.
C37_ErrorOnlyIfObserved ==
    LET g == gens["pull"]
    IN  /\ ~ErrorObserved =>
              /\ \A k \in 1..Len(sc.calls) : sc.calls[k].cb # "onError"
              /\ sc.promise.state # "rejected"
              /\ g.error = NoError
              /\ g.pc # "thrown"
        /\ (strm = "ended" /\ ~ErrorObserved) =>
              /\ sc.promise.state = "resolved"
              /\ Finished(g) => (g.pc = "returned" /\ g.yielded = Extracted)

\* the number whose little-endian base-128 digits are the low 7 bits of the
\* bytes
RECURSIVE VarintValue(_)
VarintValue(bytes) ==
    IF bytes = <<>> THEN Big(0, 0)
    ELSE LET rest == VarintValue(Tail(bytes))
         IN  Big(rest.hi * 128 + rest.lo \div (2^21),
                 (rest.lo % (2^21)) * 128 + (Head(bytes) % 128))

\* C38: for every non-negative integer v, those of 2^32 and above
\* included, encodeVarint(v) is a non-empty list of bytes in which every
\* byte but the last has its high bit set and the last has it clear, and
\* the low 7 bits of the bytes, read as a little-endian base-128 number,
\* give v.
C38_VarintRoundTrip ==
    vint.stage = 1 =>
        /\ Len(vint.bytes) >= 1
        /\ \A i \in 1..(Len(vint.bytes) - 1) : vint.bytes[i] \in 128..255
        /\ vint.bytes[Len(vint.bytes)] \in 0..127
        /\ VarintValue(vint.bytes) = vint.value

\* C38 witness: a Date.now() of November 2025, above 2^40, was encoded in
\* six bytes
C38_Witness ==
    /\ vint.stage = 1
    /\ vint.value = Big(6565, 40031360)
    /\ Len(vint.bytes) = 6

\* the names getCanonicalModels returns
CanonicalNames == {getCanonicalModels[k] : k \in 1..Len(getCanonicalModels)}

\* C39: the two registry tables agree: every name c of getCanonicalModels()
\* is supported and enumToModelName(modelNameToEnum(c)) = c, the list has no
\* duplicates, and the default model name gives the default enum.
C39_TablesAgree ==
    /\ (reg.op = "modelNameToEnum" /\ reg.modelName \in CanonicalNames) =>
          /\ isModelSupported(reg.modelName)
          /\ enumToModelName(reg.enum) = reg.modelName
    /\ (reg.op = "modelNameToEnum" /\ reg.modelName = getDefaultModel) =>
          reg.enum = getDefaultModelEnum
    /\ Cardinality(CanonicalNames) = Len(getCanonicalModels)

\* C39 witness: a canonical name that has a dashed alias was looked up and
\* its enum led back to it
C39_Witness ==
    /\ reg.op = "modelNameToEnum"
    /\ reg.modelName = <<"c", "l", "a", "u", "d", "e", "-", "4", ".", "5", "-", "o", "p", "u", "s">>
    /\ reg.modelName \in CanonicalNames
    /\ reg.enum = "CLAUDE_4_5_OPUS"

=========================================================================
